---- MODULE Spec2Model ----
(***************************************************************************)
(* A model of the dataclass field descriptors (descriptors.py) and of the  *)
(* import / export mixins (mixins.py).                                     *)
(*                                                                         *)
(* Python values are tagged records; the tag is the field k.  A Python str *)
(* is a sequence of one-character strings, so that parsing, formatting and *)
(* key-path rendering are computed character by character.                 *)
(***************************************************************************)
EXTENDS Integers, Sequences, FiniteSets, TLC

VARIABLES desc, slots, lit, last, imp, exp, walk

vars == <<desc, slots, lit, last, imp, exp, walk>>

(***************************************************************************)
(* Python values                                                           *)
(***************************************************************************)
PyNone == [k |-> "none"]
PyBool(b) == [k |-> "bool", b |-> b]
PyInt(i) == [k |-> "int", i |-> i]
PyFloat(cls, neg, ip, fr) == [k |-> "float", fcls |-> cls, neg |-> neg, ip |-> ip, fr |-> fr]
PyStr(s) == [k |-> "str", s |-> s]
PyUuid(h) == [k |-> "uuid", hex |-> h]
PyList(xs) == [k |-> "list", items |-> xs]
PyDict(ks, vs) == [k |-> "dict", keys |-> ks, vals |-> vs]
PyObj(cls, d) == [k |-> "obj", cls |-> cls, d |-> d]

EmptyDict == PyDict(<<>>, <<>>)

\* The outcome of a call: a returned value or a raised exception.
Ok(v) == [out |-> "ok", val |-> v]
Raise(e) == [out |-> "raise", err |-> e]

\* Sequencing: an exception propagates, a returned value is passed on.
Bind(r, F(_)) == IF r.out = "raise" THEN r ELSE F(r.val)

\* Python truthiness ("not value").
Truthy(v) ==
    CASE v.k = "none" -> FALSE
      [] v.k = "bool" -> v.b
      [] v.k = "int" -> v.i # 0
      [] v.k = "float" -> ~(v.fcls = "fin" /\ v.ip = 0 /\ v.fr = <<>>)
      [] v.k = "str" -> v.s # <<>>
      [] v.k = "list" -> v.items # <<>>
      [] v.k = "dict" -> v.keys # <<>>
      [] OTHER -> TRUE

\* dict helpers: keys keep their insertion order.
RECURSIVE IndexOf(_, _)
IndexOf(ks, key) ==
    IF ks = <<>> THEN 0
    ELSE IF ks[Len(ks)] = key THEN Len(ks)
    ELSE IndexOf(SubSeq(ks, 1, Len(ks) - 1), key)

HasKey(d, key) == IndexOf(d.keys, key) # 0

\* dict.get(key): None when the key is absent.
DictGet(d, key) == IF HasKey(d, key) THEN d.vals[IndexOf(d.keys, key)] ELSE PyNone

\* d[key] = v
DictSet(d, key, v) ==
    IF HasKey(d, key)
    THEN PyDict(d.keys, [d.vals EXCEPT ![IndexOf(d.keys, key)] = v])
    ELSE PyDict(Append(d.keys, key), Append(d.vals, v))

\* d.update(e)
RECURSIVE DictUpdate(_, _)
DictUpdate(d, e) ==
    IF e.keys = <<>> THEN d
    ELSE DictUpdate(DictSet(d, Head(e.keys), Head(e.vals)), PyDict(Tail(e.keys), Tail(e.vals)))

(***************************************************************************)
(* Strings                                                                 *)
(***************************************************************************)
Digits == <<"0", "1", "2", "3", "4", "5", "6", "7", "8", "9">>
LowerHex == <<"a", "b", "c", "d", "e", "f">>
UpperHex == <<"A", "B", "C", "D", "E", "F">>

IsDigit(c) == \E i \in 1..10 : Digits[i] = c
DigitVal(c) == (CHOOSE i \in 1..10 : Digits[i] = c) - 1
IsHex(c) == IsDigit(c) \/ (\E i \in 1..6 : LowerHex[i] = c \/ UpperHex[i] = c)
LowerChar(c) == IF \E i \in 1..6 : UpperHex[i] = c
                THEN LowerHex[CHOOSE i \in 1..6 : UpperHex[i] = c]
                ELSE c
LowerStr(s) == [i \in 1..Len(s) |-> LowerChar(s[i])]

StartsWith(s, p) == Len(s) >= Len(p) /\ SubSeq(s, 1, Len(p)) = p

\* s.replace(p, "")
RECURSIVE RemoveAll(_, _)
RemoveAll(s, p) ==
    IF s = <<>> THEN <<>>
    ELSE IF StartsWith(s, p) THEN RemoveAll(SubSeq(s, Len(p) + 1, Len(s)), p)
    ELSE <<Head(s)>> \o RemoveAll(Tail(s), p)

\* s.lstrip(cs), s.rstrip(cs), s.strip(cs)
RECURSIVE LStrip(_, _)
LStrip(s, cs) == IF s # <<>> /\ Head(s) \in cs THEN LStrip(Tail(s), cs) ELSE s
RECURSIVE RStrip(_, _)
RStrip(s, cs) ==
    IF s # <<>> /\ s[Len(s)] \in cs THEN RStrip(SubSeq(s, 1, Len(s) - 1), cs) ELSE s
Strip(s, cs) == RStrip(LStrip(s, cs), cs)

\* The value of a sequence of decimal digits.
RECURSIVE DigitsToNat(_)
DigitsToNat(ds) ==
    IF ds = <<>> THEN 0
    ELSE 10 * DigitsToNat(SubSeq(ds, 1, Len(ds) - 1)) + DigitVal(ds[Len(ds)])

\* str(n) for a natural number, and for an int.
RECURSIVE NatToStr(_)
NatToStr(n) == IF n < 10 THEN <<Digits[n + 1]>> ELSE NatToStr(n \div 10) \o <<Digits[(n % 10) + 1]>>
IntToStr(i) == IF i < 0 THEN <<"-">> \o NatToStr(-i) ELSE NatToStr(i)

AllDigits(s) == \A i \in 1..Len(s) : IsDigit(s[i])

S_inf == <<"i", "n", "f">>
S_infinity == <<"i", "n", "f", "i", "n", "i", "t", "y">>
S_nan == <<"n", "a", "n">>
S_urn == <<"u", "r", "n", ":">>
S_uuid_colon == <<"u", "u", "i", "d", ":">>
S_None == <<"N", "o", "n", "e">>
S_True == <<"T", "r", "u", "e">>
S_False == <<"F", "a", "l", "s", "e">>

(***************************************************************************)
(* float(s), int(x), str(x), uuid.UUID(s)                                  *)
(***************************************************************************)
\* float(s) for a str: surrounding blanks are ignored; an optional sign; then
\* inf / infinity / nan, or decimal digits with at most one point and at least
\* one digit.  Anything else is a ValueError.  (Exponents and digit-grouping
\* underscores are outside the alphabet of the inputs drawn here.)
float_of_str(s) ==
    LET t == Strip(s, {" "})
        neg == t # <<>> /\ Head(t) = "-"
        u == IF t # <<>> /\ Head(t) \in {"+", "-"} THEN Tail(t) ELSE t
        dot == IF \E i \in 1..Len(u) : u[i] = "." THEN CHOOSE i \in 1..Len(u) : u[i] = "." /\ \A j \in 1..(i - 1) : u[j] # "."
               ELSE Len(u) + 1
        ipd == SubSeq(u, 1, dot - 1)
        frd == SubSeq(u, dot + 1, Len(u))
    IN  IF u \in {S_inf, S_infinity} THEN Ok(PyFloat("inf", neg, 0, <<>>))
        ELSE IF u = S_nan THEN Ok(PyFloat("nan", neg, 0, <<>>))
        ELSE IF AllDigits(ipd) /\ AllDigits(frd) /\ Len(ipd) + Len(frd) > 0
        THEN Ok(PyFloat("fin", neg, DigitsToNat(ipd), RStrip(frd, {"0"})))
        ELSE Raise("ValueError")

\* float(x) for an int, a bool or a float.
float_of_num(v) ==
    CASE v.k = "float" -> v
      [] v.k = "bool" -> PyFloat("fin", FALSE, IF v.b THEN 1 ELSE 0, <<>>)
      [] v.k = "int" -> PyFloat("fin", v.i < 0, IF v.i < 0 THEN -v.i ELSE v.i, <<>>)

\* int(x) for an int, a bool or a float: truncation towards zero; an infinity is
\* an OverflowError and a NaN a ValueError.
int_of_num(v) ==
    CASE v.k = "int" -> Ok(v)
      [] v.k = "bool" -> Ok(PyInt(IF v.b THEN 1 ELSE 0))
      [] v.k = "float" ->
            IF v.fcls = "inf" THEN Raise("OverflowError")
            ELSE IF v.fcls = "nan" THEN Raise("ValueError")
            ELSE Ok(PyInt(IF v.neg THEN -v.ip ELSE v.ip))

\* int(s) for a str: blanks ignored, an optional sign, decimal digits.
int_of_str(s) ==
    LET t == Strip(s, {" "})
        neg == t # <<>> /\ Head(t) = "-"
        u == IF t # <<>> /\ Head(t) \in {"+", "-"} THEN Tail(t) ELSE t
    IN  IF u # <<>> /\ AllDigits(u)
        THEN Ok(PyInt(IF neg THEN -DigitsToNat(u) ELSE DigitsToNat(u)))
        ELSE Raise("ValueError")

\* int(x) for any value.  (int() of a UUID is its 128-bit value, which no
\* list written to a ListOfIntDescriptor here holds.)
py_int(v) ==
    CASE v.k \in {"int", "bool", "float"} -> int_of_num(v)
      [] v.k = "str" -> int_of_str(v.s)
      [] OTHER -> Raise("TypeError")

\* str(x): exact for None, bool, int, float, str and UUID; any other value has
\* a representation that starts with "<" or a bracket, shortened here to its
\* first character.
py_str(v) ==
    CASE v.k = "none" -> S_None
      [] v.k = "bool" -> IF v.b THEN S_True ELSE S_False
      [] v.k = "int" -> IntToStr(v.i)
      [] v.k = "str" -> v.s
      [] v.k = "float" ->
            IF v.fcls = "nan" THEN S_nan
            ELSE (IF v.neg THEN <<"-">> ELSE <<>>)
                    \o (IF v.fcls = "inf" THEN S_inf
                        ELSE NatToStr(v.ip) \o <<".">> \o (IF v.fr = <<>> THEN <<"0">> ELSE v.fr))
      [] v.k = "uuid" -> SubSeq(v.hex, 1, 8) \o <<"-">> \o SubSeq(v.hex, 9, 12) \o <<"-">>
                           \o SubSeq(v.hex, 13, 16) \o <<"-">> \o SubSeq(v.hex, 17, 20)
                           \o <<"-">> \o SubSeq(v.hex, 21, 32)
      [] v.k = "list" -> <<"[">>
      [] v.k = "dict" -> <<"{">>
      [] OTHER -> <<"<">>

\* uuid.UUID(s): "urn:" and "uuid:" are removed, braces stripped, hyphens
\* removed; what is left must be 32 hexadecimal digits.
uuid_UUID(s) ==
    LET h1 == RemoveAll(RemoveAll(s, S_urn), S_uuid_colon)
        h2 == RemoveAll(Strip(h1, {"{", "}"}), <<"-">>)
    IN  IF Len(h2) # 32 THEN Raise("ValueError")
        ELSE IF \A i \in 1..32 : IsHex(h2[i]) THEN Ok(PyUuid(LowerStr(h2)))
        ELSE Raise("ValueError")

(***************************************************************************)
(* Descriptors: construction (the default source) and a call of            *)
(* self.default_factory()                                                  *)
(***************************************************************************)
MISSING == [k |-> "MISSING"]

\* A zero-argument function given as default_factory; calling it returns ret.
PyFn(ret) == [k |-> "fn", ret |-> ret]
callable(f) == f.k = "fn"

\* A descriptor as constructed: kind(object_class, default, default_factory,
\* raise_on_error, optional).
Descriptor(kind, cls, default, factory, strict, optional) ==
    [k |-> "descr", kind |-> kind, cls |-> cls, default |-> default,
     factory |-> factory, strict |-> strict, optional |-> optional]

\* A dataclass field: its name, default and default_factory.
Field(name, default, factory) == [name |-> name, default |-> default, factory |-> factory]

F_name == <<"n", "a", "m", "e">>
F_title == <<"t", "i", "t", "l", "e">>
F_n == <<"n">>
F_count == <<"c", "o", "u", "n", "t">>
F_child == <<"c", "h", "i", "l", "d">>
F_uid == <<"u", "i", "d">>
F_items == <<"i", "t", "e", "m", "s">>
F_m == <<"m">>
F_a == <<"a">>
F_b == <<"b">>
F_c == <<"c">>
F_x == <<"x">>
F_tag == <<"t", "a", "g">>
F_val == <<"v", "a", "l">>
F_next == <<"n", "e", "x", "t">>

S_uuid1 == <<"1", "2", "3", "4", "5", "6", "7", "8", "-", "1", "2", "3", "4", "-", "5", "6", "7", "8", "-", "1", "2", "3", "4", "-", "5", "6", "7", "8", "1", "2", "3", "4", "5", "6", "7", "8">>
S_uuid2 == <<"{", "A", "B", "C", "D", "E", "F", "A", "B", "-", "C", "D", "E", "F", "-", "A", "B", "C", "D", "-", "E", "F", "A", "B", "-", "C", "D", "E", "F", "A", "B", "C", "D", "E", "F", "A", "B", "}">>
S_uuid3 == <<"u", "r", "n", ":", "u", "u", "i", "d", ":", "0", "0", "0", "0", "0", "0", "0", "0", "0", "0", "0", "0", "0", "0", "0", "0", "0", "0", "0", "0", "0", "0", "0", "0", "0", "0", "0", "0", "0", "0", "0", "1">>
S_not_a_uuid == <<"n", "o", "t", "-", "a", "-", "u", "u", "i", "d">>
S_empty == <<>>
S_12 == <<"1", "2">>
S_12_0 == <<"1", "2", ".", "0">>
S_m3_7 == <<"-", "3", ".", "7">>
S_abc == <<"a", "b", "c">>
S_x == <<"x">>

U1 == uuid_UUID(S_uuid1).val
U2 == uuid_UUID(S_uuid2).val

\* The entity types (dataclasses) of the model.  Every one carries
\* ImportJsonMixin; exp names its export mixin: "nested" (ExportJsonMixin),
\* "flat" (FlatExportJsonMixin) or "none" (a plain dataclass without to_json).
LeafFields ==
    << Field(F_name, MISSING, MISSING),
       Field(F_n, Descriptor("Int", "", PyInt(0), PyNone, FALSE, TRUE), MISSING) >>
FreeFields ==
    << Field(F_b, Descriptor("Int", "", PyInt(7), PyNone, FALSE, TRUE), MISSING),
       Field(F_c, PyNone, MISSING) >>
DocFields ==
    << Field(F_title, MISSING, MISSING),
       Field(F_name, MISSING, MISSING),
       Field(F_count, PyInt(5), MISSING),
       Field(F_x, MISSING, PyFn(PyList(<<>>))) >>
BoxFields ==
    << Field(F_count, PyInt(5), MISSING),
       Field(F_child, Descriptor("Single", "Leaf", PyNone, PyNone, FALSE, TRUE), MISSING),
       Field(F_uid, Descriptor("Uuid", "", PyNone, PyFn(U1), TRUE, TRUE), MISSING) >>
TreeFields ==
    << Field(F_a, Descriptor("Single", "Free", PyNone, PyNone, FALSE, FALSE), MISSING),
       Field(F_items, Descriptor("ObjList", "Free", PyNone, PyNone, FALSE, TRUE), MISSING),
       Field(F_m, Descriptor("Map", "Leaf", PyNone, PyNone, FALSE, TRUE), MISSING) >>

TagFields ==
    << Field(F_b, PyInt(1), MISSING) >>
WrapFields ==
    << Field(F_tag, Descriptor("Single", "Tag", PyNone, PyNone, FALSE, FALSE), MISSING) >>

\* An entity type with an attribute of its own type: the accessor of next is
\* declared before the class and given it as object_class afterwards.
NodeFields ==
    << Field(F_val, PyInt(0), MISSING),
       Field(F_next, Descriptor("Single", "Node", PyNone, PyNone, FALSE, TRUE), MISSING) >>

ClassTable ==
    [Leaf  |-> [exp |-> "nested", fields |-> LeafFields],
     Free  |-> [exp |-> "none", fields |-> FreeFields],
     Doc   |-> [exp |-> "flat", fields |-> DocFields],
     DocN  |-> [exp |-> "nested", fields |-> DocFields],
     Box   |-> [exp |-> "flat", fields |-> BoxFields],
     BoxN  |-> [exp |-> "nested", fields |-> BoxFields],
     Tree  |-> [exp |-> "flat", fields |-> TreeFields],
     TreeN |-> [exp |-> "nested", fields |-> TreeFields],
     Tag   |-> [exp |-> "flat", fields |-> TagFields],
     Wrap  |-> [exp |-> "flat", fields |-> WrapFields],
     WrapN |-> [exp |-> "nested", fields |-> WrapFields],
     Node  |-> [exp |-> "nested", fields |-> NodeFields]]

Classes == DOMAIN ClassTable
fields(cls) == ClassTable[cls].fields

\* An answer that no entity type has required fields.
has_required_fields_never(cls) == FALSE

\* ImportJsonMixin.has_required_fields: some field has neither a default nor a
\* default factory.
has_required_fields(cls) ==
    \E i \in 1..Len(fields(cls)) :
        LET field_obj == fields(cls)[i]
            has_default == field_obj.default # MISSING
            has_factory == field_obj.factory # MISSING
        IN  ~has_default /\ ~has_factory

\* isinstance(v, object_class)
IsInstance(v, cls) == v.k = "obj" /\ v.cls = cls

\* What __init__ binds self.default_factory to.  "unset" is the one path of
\* StrUuidDescriptor.__init__ that binds nothing; "init_raises" is the path
\* that re-raises the parse error of a default string.
IntStringDescriptor_init(d) ==
    IF callable(d.factory) THEN "default_factory"
    ELSE IF d.default.k \in {"int", "bool", "float"} THEN "lambda_default"
    ELSE "raise_on_value_missed"

StrUuidDescriptor_init(d) ==
    IF callable(d.factory) THEN "default_factory"
    ELSE IF d.default.k = "uuid" THEN "lambda_default"
    ELSE IF d.default.k = "str"
         THEN IF uuid_UUID(d.default.s).out = "ok" THEN "lambda_parsed"
              ELSE IF d.strict THEN "init_raises" ELSE "unset"
    ELSE "raise_on_value_missed"

ListOfUuidDescriptor_init(d) ==
    IF callable(d.factory) THEN "default_factory"
    ELSE IF d.default.k = "list" THEN "_df"
    ELSE "raise_on_value_missed"

ListOfIntDescriptor_init(d) ==
    IF callable(d.factory) THEN "default_factory"
    ELSE IF d.default.k = "list" THEN "lambda_copy"
    ELSE "raise_on_value_missed"

\* A choice of the default source that constructs an empty nested entity
\* before it looks at the optional flag.
SingleObjectDescriptor_init_construct_first(d) ==
    IF callable(d.factory) THEN "default_factory"
    ELSE IF IsInstance(d.default, d.cls) THEN "lambda_default"
    ELSE IF ~has_required_fields(d.cls) THEN "_default_factory"
    ELSE IF d.optional THEN "lambda_None"
    ELSE "_raise_no_default"

SingleObjectDescriptor_init(d) ==
    IF callable(d.factory) THEN "default_factory"
    ELSE IF IsInstance(d.default, d.cls) THEN "lambda_default"
    ELSE IF d.optional THEN "lambda_None"
    ELSE IF has_required_fields(d.cls) THEN "_raise_no_default"
    ELSE "_default_factory"

ObjectListDescriptor_init(d) ==
    IF callable(d.factory) THEN "default_factory"
    ELSE IF d.default.k = "list" THEN "lambda_default"
    ELSE "_default_factory"

MapObjectDescriptor_init(d) ==
    IF callable(d.factory) THEN "default_factory"
    ELSE IF d.default.k = "dict" THEN "lambda_default"
    ELSE "_default_factory"

FloatStringDescriptor_init(d) ==
    IF callable(d.factory) THEN "default_factory"
    ELSE IF d.default.k \in {"int", "bool", "float"} THEN "lambda_default"
    ELSE "raise_on_value_missed"

BoolToIntDescriptor_init(d) ==
    IF callable(d.factory) THEN "default_factory"
    ELSE IF d.default.k \in {"bool", "int"} THEN "lambda_default"
    ELSE "raise_on_value_missed"

default_source(d) ==
    CASE d.kind = "Int" -> IntStringDescriptor_init(d)
      [] d.kind = "Float" -> FloatStringDescriptor_init(d)
      [] d.kind = "Bool" -> BoolToIntDescriptor_init(d)
      [] d.kind = "Uuid" -> StrUuidDescriptor_init(d)
      [] d.kind = "ListUuid" -> ListOfUuidDescriptor_init(d)
      [] d.kind = "ListInt" -> ListOfIntDescriptor_init(d)
      [] d.kind = "Single" -> SingleObjectDescriptor_init(d)
      [] d.kind = "ObjList" -> ObjectListDescriptor_init(d)
      [] d.kind = "Map" -> MapObjectDescriptor_init(d)

\* ListOfIntDescriptor._can_int(x): int(str(x)) does not raise.
_can_int(x) == int_of_str(py_str(x)).out = "ok"

\* The body of the lambda of ListOfIntDescriptor.__init__:
\* [int(x) for x in default if self._can_int(x)]
RECURSIVE ListOfInt_lambda(_)
ListOfInt_lambda(xs) ==
    IF xs = <<>> THEN Ok(PyList(<<>>))
    ELSE IF ~_can_int(Head(xs)) THEN ListOfInt_lambda(Tail(xs))
    ELSE Bind(py_int(Head(xs)), LAMBDA h :
         Bind(ListOfInt_lambda(Tail(xs)), LAMBDA t : Ok(PyList(<<h>> \o t.items))))

\* One item x of the default in _df of ListOfUuidDescriptor.__init__: what is
\* appended (a sequence of at most one UUID), or the parse error re-raised in
\* strict mode.
ListOfUuid_df_item(x, strict) ==
    IF x.k = "uuid" THEN Ok(<<x>>)
    ELSE IF x.k = "str"
         THEN IF uuid_UUID(x.s).out = "ok" THEN Ok(<<uuid_UUID(x.s).val>>)
              ELSE IF strict THEN Raise("ValueError")
              ELSE Ok(<<>>)
    ELSE Ok(<<>>)

\* _df of ListOfUuidDescriptor.__init__: a copy of the default with validation.
RECURSIVE ListOfUuid_df(_, _)
ListOfUuid_df(xs, strict) ==
    IF xs = <<>> THEN Ok(PyList(<<>>))
    ELSE Bind(ListOfUuid_df_item(Head(xs), strict), LAMBDA h :
         Bind(ListOfUuid_df(Tail(xs), strict), LAMBDA t : Ok(PyList(h \o t.items))))

(***************************************************************************)
(* Descriptors: self.default_factory(), __set__ and __get__                *)
(***************************************************************************)
\* object_class(**kwargs) is ImportJsonMixin.__init__, defined below.
RECURSIVE ImportJsonMixin_init(_, _)

\* A call of what __init__ bound self.default_factory to (src).
call_source(d, src) ==
    CASE src = "default_factory" -> Ok(d.factory.ret)
      [] src = "lambda_default" ->
            (CASE d.kind = "Int" -> int_of_num(d.default)
               [] d.kind = "Float" -> Ok(float_of_num(d.default))
               [] d.kind = "Bool" -> Ok(PyInt(IF Truthy(d.default) THEN 1 ELSE 0))
               [] OTHER -> Ok(d.default))
      [] src = "lambda_parsed" -> uuid_UUID(d.default.s)
      [] src = "_df" -> ListOfUuid_df(d.default.items, d.strict)
      [] src = "lambda_copy" -> ListOfInt_lambda(d.default.items)
      [] src = "lambda_None" -> Ok(PyNone)
      [] src = "_default_factory" ->
            (CASE d.kind = "Single" -> ImportJsonMixin_init(d.cls, EmptyDict)
               [] d.kind = "ObjList" -> Ok(PyList(<<>>))
               [] d.kind = "Map" -> Ok(EmptyDict))
      [] src \in {"raise_on_value_missed", "_raise_no_default"} -> Raise("ValueError")
      [] src = "unset" -> Raise("AttributeError")

\* self.default_factory()
call_default(d) == call_source(d, default_source(d))

\* The three ways a __set__ ends: it stores a value it made from the raw one,
\* it stores the result of self.default_factory(), or it raises.
Stored(v) == [out |-> "ok", val |-> v, dflt |-> FALSE]
UseDefault == [out |-> "default"]
MarkDefault(r) == IF r.out = "ok" THEN [out |-> "ok", val |-> r.val, dflt |-> TRUE] ELSE r
StoredOf(r) == IF r.out = "ok" THEN Stored(r.val) ELSE r

\* int(float(value)) inside try / except ValueError.
IntString_parsed(i) ==
    IF i.out = "ok" THEN Stored(i.val)
    ELSE IF i.err = "ValueError" THEN UseDefault
    ELSE i

IntStringDescriptor_set(d, value) ==
    IF value.k = "none" \/ (value.k = "str" /\ value.s = <<>>) THEN UseDefault
    ELSE IF value.k = "str" THEN IntString_parsed(Bind(float_of_str(value.s), int_of_num))
    ELSE IF value.k \in {"int", "bool", "float"} THEN StoredOf(int_of_num(value))
    ELSE UseDefault

FloatString_parsed(f) == IF f.out = "ok" THEN Stored(f.val) ELSE UseDefault

FloatStringDescriptor_set(d, value) ==
    IF value.k = "none" \/ (value.k = "str" /\ value.s = <<>>) THEN UseDefault
    ELSE IF value.k = "str" THEN FloatString_parsed(float_of_str(value.s))
    ELSE IF value.k \in {"int", "bool", "float"} THEN Stored(float_of_num(value))
    ELSE UseDefault

BoolToIntDescriptor_set(d, value) ==
    IF value.k = "none" THEN UseDefault
    ELSE IF value.k = "bool" THEN Stored(PyInt(IF value.b THEN 1 ELSE 0))
    ELSE IF value.k = "int" THEN Stored(PyInt(IF value.i # 0 THEN 1 ELSE 0))
    ELSE UseDefault

\* A parse failure that is raised whatever the mode.
StrUuid_parsed_raising(d, u) == IF u.out = "ok" THEN Stored(u.val) ELSE Raise("Exception")

\* uuid.UUID(value) inside try / except of StrUuidDescriptor.__set__.
StrUuid_parsed(d, u) ==
    IF u.out = "ok" THEN Stored(u.val)
    ELSE IF d.strict THEN Raise("Exception")
    ELSE UseDefault

StrUuidDescriptor_set(d, value) ==
    IF ~Truthy(value) THEN UseDefault
    ELSE IF value.k = "uuid" THEN Stored(value)
    ELSE IF value.k = "str" THEN StrUuid_parsed(d, uuid_UUID(value.s))
    ELSE IF value.k = "descr" /\ value.kind = "Uuid" THEN UseDefault
    ELSE Raise("Exception")

\* An item that is dropped whatever the mode.
ListOfUuid_item_dropped(u, strict) == IF u.out = "ok" THEN Ok(<<u.val>>) ELSE Ok(<<>>)

\* One item of the loop of ListOfUuidDescriptor.__set__: what is appended, or
\* the exception of strict mode.
ListOfUuid_item(u, strict) ==
    IF u.out = "ok" THEN Ok(<<u.val>>)
    ELSE IF strict THEN Raise("Exception")
    ELSE Ok(<<>>)

RECURSIVE ListOfUuid_items(_, _)
ListOfUuid_items(xs, strict) ==
    IF xs = <<>> THEN Ok(<<>>)
    ELSE Bind(ListOfUuid_item(IF Head(xs).k = "uuid" THEN Ok(Head(xs))
                              ELSE uuid_UUID(py_str(Head(xs))), strict), LAMBDA h :
         Bind(ListOfUuid_items(Tail(xs), strict), LAMBDA t : Ok(h \o t)))

ListOfUuidDescriptor_set(d, value) ==
    IF value.k = "none" THEN UseDefault
    ELSE IF value.k = "list"
         THEN StoredOf(Bind(ListOfUuid_items(value.items, d.strict), LAMBDA r : Ok(PyList(r))))
    ELSE UseDefault

\* One item of the loop of ListOfIntDescriptor.__set__: an item int() rejects
\* is skipped.
ListOfInt_item(i) == IF i.out = "ok" THEN <<i.val>> ELSE <<>>

RECURSIVE ListOfInt_items(_)
ListOfInt_items(xs) ==
    IF xs = <<>> THEN <<>>
    ELSE ListOfInt_item(py_int(Head(xs))) \o ListOfInt_items(Tail(xs))

ListOfIntDescriptor_set(d, value) ==
    IF value.k = "list" THEN Stored(PyList(ListOfInt_items(value.items)))
    ELSE UseDefault

\* A write that falls back to the default source for a wrong-shaped value of
\* an optional attribute.
SingleObjectDescriptor_set_lenient(d, value) ==
    IF ~Truthy(value) THEN UseDefault
    ELSE IF value.k = "dict" THEN StoredOf(ImportJsonMixin_init(d.cls, value))
    ELSE IF ~IsInstance(value, d.cls) THEN (IF d.optional THEN UseDefault ELSE Raise("ValueError"))
    ELSE Stored(value)

SingleObjectDescriptor_set(d, value) ==
    IF ~Truthy(value) THEN UseDefault
    ELSE IF value.k = "dict" THEN StoredOf(ImportJsonMixin_init(d.cls, value))
    ELSE IF ~IsInstance(value, d.cls) THEN Raise("ValueError")
    ELSE Stored(value)

\* The loop of ObjectListDescriptor.__set__: a dict is constructed, an instance
\* kept, anything else skipped.
RECURSIVE ObjectList_items(_, _)
ObjectList_items(xs, cls) ==
    IF xs = <<>> THEN Ok(<<>>)
    ELSE Bind(IF Head(xs).k = "dict"
              THEN Bind(ImportJsonMixin_init(cls, Head(xs)), LAMBDA o : Ok(<<o>>))
              ELSE IF IsInstance(Head(xs), cls) THEN Ok(<<Head(xs)>>)
              ELSE Ok(<<>>), LAMBDA h :
         Bind(ObjectList_items(Tail(xs), cls), LAMBDA t : Ok(h \o t)))

ObjectListDescriptor_set(d, value) ==
    IF value.k = "none" \/ value.k # "list" THEN UseDefault
    ELSE StoredOf(Bind(ObjectList_items(value.items, d.cls), LAMBDA r : Ok(PyList(r))))

\* A loop that keeps a value that is neither an instance nor a dict under its
\* key.
RECURSIVE MapObject_items_kept(_, _, _)
MapObject_items_kept(ks, vs, cls) ==
    IF ks = <<>> THEN Ok(EmptyDict)
    ELSE Bind(IF IsInstance(Head(vs), cls) THEN Ok(PyDict(<<Head(ks)>>, <<Head(vs)>>))
              ELSE IF Head(vs).k = "dict"
                   THEN Bind(ImportJsonMixin_init(cls, Head(vs)),
                             LAMBDA o : Ok(PyDict(<<Head(ks)>>, <<o>>)))
              ELSE Ok(PyDict(<<Head(ks)>>, <<Head(vs)>>)), LAMBDA h :
         Bind(MapObject_items_kept(Tail(ks), Tail(vs), cls), LAMBDA t : Ok(DictUpdate(h, t))))

\* The loop of MapObjectDescriptor.__set__: an instance is kept, a dict is
\* constructed, and a value that is neither gets no entry.
RECURSIVE MapObject_items(_, _, _)
MapObject_items(ks, vs, cls) ==
    IF ks = <<>> THEN Ok(EmptyDict)
    ELSE Bind(IF IsInstance(Head(vs), cls) THEN Ok(PyDict(<<Head(ks)>>, <<Head(vs)>>))
              ELSE IF Head(vs).k = "dict"
                   THEN Bind(ImportJsonMixin_init(cls, Head(vs)),
                             LAMBDA o : Ok(PyDict(<<Head(ks)>>, <<o>>)))
              ELSE Ok(EmptyDict), LAMBDA h :
         Bind(MapObject_items(Tail(ks), Tail(vs), cls), LAMBDA t : Ok(DictUpdate(h, t))))

MapObjectDescriptor_set(d, value) ==
    IF value.k # "dict" THEN UseDefault
    ELSE StoredOf(MapObject_items(value.keys, value.vals, d.cls))

\* The body of a __set__ up to its last line: Stored, UseDefault or an exception.
descriptor_coerce(d, value) ==
    CASE d.kind = "Int" -> IntStringDescriptor_set(d, value)
      [] d.kind = "Float" -> FloatStringDescriptor_set(d, value)
      [] d.kind = "Bool" -> BoolToIntDescriptor_set(d, value)
      [] d.kind = "Uuid" -> StrUuidDescriptor_set(d, value)
      [] d.kind = "ListUuid" -> ListOfUuidDescriptor_set(d, value)
      [] d.kind = "ListInt" -> ListOfIntDescriptor_set(d, value)
      [] d.kind = "Single" -> SingleObjectDescriptor_set(d, value)
      [] d.kind = "ObjList" -> ObjectListDescriptor_set(d, value)
      [] d.kind = "Map" -> MapObjectDescriptor_set(d, value)

\* value = self.default_factory() where the body asks for it.
resolve_default(d, r) == IF r.out = "default" THEN MarkDefault(call_default(d)) ELSE r

\* descriptor.__set__(instance, value): what is stored in instance.__dict__
\* (val, and whether it is the default factory's result), or the exception.
descriptor_set(d, value) == resolve_default(d, descriptor_coerce(d, value))

\* Whether __get__ finds no value to return: SingleObjectDescriptor tests the
\* key, the others test the value against None.
get_needs_default(d, dct, name) ==
    IF d.kind = "Single" THEN ~HasKey(dct, name) ELSE DictGet(dct, name).k = "none"

\* __get__ returning the default: only SingleObjectDescriptor caches it.
get_default(d, dct, name, r) ==
    [res |-> r,
     dct |-> IF d.kind = "Single" /\ r.out = "ok" THEN DictSet(dct, name, r.val) ELSE dct]

\* descriptor.__get__(instance, owner) on an instance whose __dict__ is dct:
\* the value returned (or the exception) and the __dict__ afterwards.
descriptor_get(d, dct, name) ==
    IF get_needs_default(d, dct, name) THEN get_default(d, dct, name, call_default(d))
    ELSE [res |-> Ok(DictGet(dct, name)), dct |-> dct]

(***************************************************************************)
(* ImportJsonMixin                                                         *)
(***************************************************************************)
\* isinstance(x, ObjectFieldDescriptor): the three nested-entity descriptors.
IsObjectFieldDescriptor(x) == x.k = "descr" /\ x.kind \in {"Single", "ObjList", "Map"}

\* The test of validate_required_fields on one field: it has no default and
\* no factory, and input_data lacks it or maps it to None.
field_missing(field_obj, input_data) ==
    LET has_default == field_obj.default # MISSING
        has_factory == field_obj.factory # MISSING
    IN  /\ ~has_default
        /\ ~has_factory
        /\ (~HasKey(input_data, field_obj.name) \/ DictGet(input_data, field_obj.name).k = "none")

\* The loop of validate_required_fields over the fields from the i-th on.
RECURSIVE missing_fields(_, _, _)
missing_fields(cls, input_data, i) ==
    IF i > Len(fields(cls)) THEN <<>>
    ELSE (IF field_missing(fields(cls)[i], input_data) THEN <<fields(cls)[i].name>> ELSE <<>>)
            \o missing_fields(cls, input_data, i + 1)

\* A validation that reports the first missing field only.
raise_if_missing_first(missing) ==
    IF missing # <<>>
    THEN [out |-> "raise", err |-> "MissingRequiredFieldsError", missing |-> <<Head(missing)>>]
    ELSE Ok(PyNone)

\* if missing_fields: raise MissingRequiredFieldsError(... ', '.join(missing_fields) ...)
raise_if_missing(missing) ==
    IF missing # <<>>
    THEN [out |-> "raise", err |-> "MissingRequiredFieldsError", missing |-> missing]
    ELSE Ok(PyNone)

validate_required_fields(cls, input_data) == raise_if_missing(missing_fields(cls, input_data, 1))

\* instance.__dict__[name] = the value a __set__ stores.
store(dct, name, r) == IF r.out = "ok" THEN Ok(DictSet(dct, name, r.val)) ELSE r

\* An assignment that stores nothing.
setattr_skipped(sf_field, dct, value) == Ok(dct)

\* setattr(self, name, value) on an instance whose __dict__ is dct: through the
\* descriptor's __set__ when the field is governed by one.
setattr(sf_field, dct, value) ==
    IF sf_field.default.k = "descr"
    THEN store(dct, sf_field.name, descriptor_set(sf_field.default, value))
    ELSE Ok(DictSet(dct, sf_field.name, value))

\* A choice that passes a nested-entity accessor the value under the field's
\* own key only (None when the key is absent).
import_value_key_only(sf_field, kwargs) ==
    LET new_value == DictGet(kwargs, sf_field.name)
    IN  IF IsObjectFieldDescriptor(sf_field.default) THEN new_value
        ELSE IF new_value.k = "none" /\ sf_field.factory # MISSING THEN sf_field.factory.ret
        ELSE IF new_value.k = "none" /\ sf_field.default # MISSING THEN sf_field.default
        ELSE new_value

\* A choice that substitutes the literal default for every falsy raw value.
import_value_falsy(sf_field, kwargs) ==
    LET new_value == DictGet(kwargs, sf_field.name)
    IN  IF IsObjectFieldDescriptor(sf_field.default)
        THEN (IF ~HasKey(kwargs, sf_field.name) THEN kwargs ELSE new_value)
        ELSE IF new_value.k = "none" /\ sf_field.factory # MISSING THEN sf_field.factory.ret
        ELSE IF new_value.k # "none" /\ sf_field.factory # MISSING THEN new_value
        ELSE IF ~Truthy(new_value) /\ sf_field.default # MISSING THEN sf_field.default
        ELSE new_value

\* The value one iteration of the loop of __init__ passes to setattr.
import_value(sf_field, kwargs) ==
    LET name == sf_field.name
        new_value == DictGet(kwargs, name)
        is_model == IsObjectFieldDescriptor(sf_field.default)
        has_value == HasKey(kwargs, name)
    IN  IF is_model THEN (IF ~has_value THEN kwargs ELSE new_value)
        ELSE IF new_value.k = "none" /\ sf_field.factory # MISSING THEN sf_field.factory.ret
        ELSE IF new_value.k # "none" /\ sf_field.factory # MISSING THEN new_value
        ELSE IF new_value.k = "none" /\ sf_field.default # MISSING
                  /\ ~IsObjectFieldDescriptor(sf_field.default)
             THEN sf_field.default
        ELSE new_value

\* One iteration of the loop of __init__: the i-th field is assigned.
import_step(cls, kwargs, i, dct) ==
    setattr(fields(cls)[i], dct, import_value(fields(cls)[i], kwargs))

\* The loop of __init__ from the i-th field on.
RECURSIVE import_fields(_, _, _, _)
import_fields(cls, kwargs, i, dct) ==
    IF i > Len(fields(cls)) THEN Ok(PyObj(cls, dct))
    ELSE Bind(import_step(cls, kwargs, i, dct),
              LAMBDA d2 : import_fields(cls, kwargs, i + 1, d2))

\* ImportJsonMixin.__init__(self, **kwargs)
ImportJsonMixin_init(cls, kwargs) ==
    Bind(validate_required_fields(cls, kwargs),
         LAMBDA none : import_fields(cls, kwargs, 1, EmptyDict))

(***************************************************************************)
(* ExportJsonMixin and FlatExportJsonMixin                                 *)
(***************************************************************************)
\* hasattr(obj, "to_json") and callable(obj.to_json): an entity whose class
\* carries one of the two export mixins.
has_to_json(obj) == obj.k = "obj" /\ ClassTable[obj.cls].exp # "none"

\* is_dataclass(obj)
is_dataclass(obj) == obj.k = "obj"

\* getattr(obj, field.name): through the descriptor's __get__ when the field
\* is governed by one.
getattr(obj, field) ==
    IF field.default.k = "descr" THEN descriptor_get(field.default, obj.d, field.name).res
    ELSE IF HasKey(obj.d, field.name) THEN Ok(DictGet(obj.d, field.name))
    ELSE IF field.default # MISSING THEN Ok(field.default)
    ELSE Raise("AttributeError")

\* A leaf that is stringified whatever the flag.
leaf_value_str(obj, stringify) == PyStr(py_str(obj))

\* str(obj) if stringify else obj
leaf_value(obj, stringify) == IF stringify THEN PyStr(py_str(obj)) ELSE obj

RECURSIVE ExportJsonMixin_to_json(_, _)
RECURSIVE FlatExportJsonMixin_to_json(_, _, _)

\* obj.to_json(stringify=s) of an entity, by the export mixin of its class.
to_json(obj, stringify) ==
    IF ClassTable[obj.cls].exp = "nested" THEN ExportJsonMixin_to_json(obj, stringify)
    ELSE FlatExportJsonMixin_to_json(obj, stringify, FALSE)

RECURSIVE nested_recursive_to_json(_, _, _)

\* {field.name: recursive_to_json(getattr(obj, field.name)) for field in fields(obj)}
RECURSIVE nested_fields(_, _, _, _)
nested_fields(obj, i, self_cls, stringify) ==
    IF i > Len(fields(obj.cls)) THEN Ok(EmptyDict)
    ELSE Bind(getattr(obj, fields(obj.cls)[i]), LAMBDA value :
         Bind(nested_recursive_to_json(value, self_cls, stringify), LAMBDA r :
         Bind(nested_fields(obj, i + 1, self_cls, stringify), LAMBDA t :
              Ok(DictUpdate(PyDict(<<fields(obj.cls)[i].name>>, <<r>>), t)))))

\* [recursive_to_json(item) for item in obj]
RECURSIVE nested_list(_, _, _)
nested_list(xs, self_cls, stringify) ==
    IF xs = <<>> THEN Ok(<<>>)
    ELSE Bind(nested_recursive_to_json(Head(xs), self_cls, stringify), LAMBDA r :
         Bind(nested_list(Tail(xs), self_cls, stringify), LAMBDA t : Ok(<<r>> \o t)))

\* recursive_to_json of ExportJsonMixin.to_json; self_cls is type(self).
nested_recursive_to_json(obj, self_cls, stringify) ==
    IF has_to_json(obj) /\ obj.cls # self_cls THEN to_json(obj, FALSE)
    ELSE IF is_dataclass(obj) THEN nested_fields(obj, 1, self_cls, stringify)
    ELSE IF obj.k = "list"
         THEN Bind(nested_list(obj.items, self_cls, stringify), LAMBDA r : Ok(PyList(r)))
    ELSE IF obj.k = "dict"
         THEN Bind(nested_list(obj.vals, self_cls, stringify), LAMBDA r : Ok(PyDict(obj.keys, r)))
    ELSE Ok(leaf_value(obj, stringify))

ExportJsonMixin_to_json(self, stringify) == nested_recursive_to_json(self, self.cls, stringify)

\* prefix.rstrip("."): an AttributeError when prefix is None.
prefix_rstrip(prefix) ==
    IF prefix.k = "none" THEN Raise("AttributeError") ELSE Ok(RStrip(prefix.s, {"."}))

\* f"{prefix}{k}" if not prefix else f"{prefix}.{k}"
join_key(prefix, name) ==
    IF ~Truthy(prefix) THEN py_str(prefix) \o name ELSE prefix.s \o <<".">> \o name

\* new_prefix in the is_dataclass branch.
field_prefix(prefix, name, use_prefix) ==
    IF use_prefix THEN PyStr(join_key(prefix, name)) ELSE PyNone

\* List indexes counted from one.
index_prefix_from_one(prefix, i, use_prefix) ==
    IF use_prefix THEN PyStr(py_str(prefix) \o <<"[">> \o IntToStr(i + 1) \o <<"]">>) ELSE PyNone

\* new_prefix in the list branch: f"{prefix}[{i}]"
index_prefix(prefix, i, use_prefix) ==
    IF use_prefix THEN PyStr(py_str(prefix) \o <<"[">> \o IntToStr(i) \o <<"]">>) ELSE PyNone

\* new_prefix in the dict branch: f"{prefix}.{k}" if prefix else str(k)
key_prefix(prefix, key, use_prefix) ==
    IF use_prefix
    THEN (IF Truthy(prefix) THEN PyStr(prefix.s \o <<".">> \o key) ELSE PyStr(key))
    ELSE PyNone

RECURSIVE flat_recursive_to_json(_, _, _, _, _)

\* The loop over fields(obj) of the is_dataclass branch.
RECURSIVE flat_fields(_, _, _, _, _, _)
flat_fields(obj, i, prefix, self_cls, stringify, use_prefix) ==
    IF i > Len(fields(obj.cls)) THEN Ok(EmptyDict)
    ELSE Bind(getattr(obj, fields(obj.cls)[i]), LAMBDA value :
         Bind(flat_recursive_to_json(value, field_prefix(prefix, fields(obj.cls)[i].name, use_prefix),
                                     self_cls, stringify, use_prefix), LAMBDA r :
         Bind(flat_fields(obj, i + 1, prefix, self_cls, stringify, use_prefix), LAMBDA t :
              Ok(DictUpdate(r, t)))))

\* The loop over enumerate(obj) of the list branch; i is the index of Head(xs).
RECURSIVE flat_list(_, _, _, _, _, _)
flat_list(xs, i, prefix, self_cls, stringify, use_prefix) ==
    IF xs = <<>> THEN Ok(EmptyDict)
    ELSE Bind(flat_recursive_to_json(Head(xs), index_prefix(prefix, i, use_prefix),
                                     self_cls, stringify, use_prefix), LAMBDA r :
         Bind(flat_list(Tail(xs), i + 1, prefix, self_cls, stringify, use_prefix), LAMBDA t :
              Ok(DictUpdate(r, t))))

\* The loop over obj.items() of the dict branch.
RECURSIVE flat_dict_items(_, _, _, _, _, _)
flat_dict_items(ks, vs, prefix, self_cls, stringify, use_prefix) ==
    IF ks = <<>> THEN Ok(EmptyDict)
    ELSE Bind(flat_recursive_to_json(Head(vs), key_prefix(prefix, Head(ks), use_prefix),
                                     self_cls, stringify, use_prefix), LAMBDA r :
         Bind(flat_dict_items(Tail(ks), Tail(vs), prefix, self_cls, stringify, use_prefix),
              LAMBDA t : Ok(DictUpdate(r, t))))

\* The loop that merges the dict a nested exporter returned.
RECURSIVE flat_merge_nested(_, _, _, _)
flat_merge_nested(ks, vs, prefix, use_prefix) ==
    IF ks = <<>> THEN EmptyDict
    ELSE DictUpdate(PyDict(<<IF use_prefix THEN join_key(prefix, Head(ks)) ELSE Head(ks)>>,
                           <<Head(vs)>>),
                    flat_merge_nested(Tail(ks), Tail(vs), prefix, use_prefix))

\* flat_dict[prefix.rstrip(".")] = value
flat_entry(prefix, value) == Bind(prefix_rstrip(prefix), LAMBDA key : Ok(PyDict(<<key>>, <<value>>)))

\* The branch for a value with its own exporter, given what that returned.
flat_nested(nested, prefix, use_prefix) ==
    IF nested.k = "dict"
    THEN Ok(flat_merge_nested(nested.keys, nested.vals, prefix, use_prefix))
    ELSE flat_entry(prefix, nested)

\* recursive_to_json of FlatExportJsonMixin.to_json; self_cls is type(self).
flat_recursive_to_json(obj, prefix, self_cls, stringify, use_prefix) ==
    IF has_to_json(obj) /\ obj.cls # self_cls
    THEN Bind(to_json(obj, stringify), LAMBDA nested : flat_nested(nested, prefix, use_prefix))
    ELSE IF is_dataclass(obj) THEN flat_fields(obj, 1, prefix, self_cls, stringify, use_prefix)
    ELSE IF obj.k = "list" THEN flat_list(obj.items, 0, prefix, self_cls, stringify, use_prefix)
    ELSE IF obj.k = "dict"
         THEN flat_dict_items(obj.keys, obj.vals, prefix, self_cls, stringify, use_prefix)
    ELSE flat_entry(prefix, leaf_value(obj, stringify))

FlatExportJsonMixin_to_json(self, stringify, use_prefix) ==
    flat_recursive_to_json(self, PyStr(<<>>), self.cls, stringify, use_prefix)

(***************************************************************************)
(* Input mappings                                                          *)
(***************************************************************************)
\* One key of an input mapping with the values it may carry.
Opt(key, vals) == [key |-> key, vals |-> vals]

\* All mappings in which each key of opts is absent or carries one of its
\* values.
RECURSIVE AllDicts(_)
AllDicts(opts) ==
    IF opts = <<>> THEN {EmptyDict}
    ELSE LET rest == AllDicts(Tail(opts))
         IN  rest \cup { DictUpdate(PyDict(<<Head(opts).key>>, <<v>>), r) :
                            v \in Head(opts).vals, r \in rest }

K_k == <<"k">>
K_j == <<"j">>
L_10_20 == PyList(<<PyInt(10), PyInt(20)>>)

LeafInputs ==
    AllDicts(<< Opt(F_name, {PyNone, PyStr(S_x), L_10_20}),
                Opt(F_n, {PyStr(S_12_0), PyInt(3)}) >>)

DocInputs ==
    AllDicts(<< Opt(F_title, {PyNone, PyStr(S_x)}),
                Opt(F_name, {PyNone, PyStr(S_abc), PyUuid(U1.hex)}),
                Opt(F_count, {PyNone, PyInt(0), PyStr(S_empty), PyInt(3)}),
                Opt(F_x, {PyNone, L_10_20, PyDict(<<K_k>>, <<L_10_20>>)}) >>)

BoxInputs ==
    AllDicts(<< Opt(F_count, {PyInt(0)}),
                Opt(F_child, {PyNone, PyInt(5), EmptyDict,
                              PyDict(<<F_name>>, <<PyStr(S_x)>>),
                              PyDict(<<F_name>>, <<L_10_20>>),
                              PyDict(<<F_n>>, <<PyInt(3)>>)}),
                Opt(F_uid, {PyStr(S_uuid2), PyStr(S_not_a_uuid)}),
                Opt(F_name, {PyStr(S_abc)}) >>)

TreeInputs ==
    AllDicts(<< Opt(F_a, {EmptyDict, PyInt(5),
                          PyDict(<<F_b, F_c>>, <<PyInt(1), L_10_20>>),
                          PyDict(<<F_c>>, <<PyDict(<<K_k>>, <<PyInt(1)>>)>>)}),
                Opt(F_items, {PyInt(5),
                              PyList(<<EmptyDict, PyInt(5), PyDict(<<F_b>>, <<PyStr(S_12_0)>>)>>)}),
                Opt(F_m, {PyNone,
                          PyDict(<<K_k, K_j>>, <<PyDict(<<F_name>>, <<PyStr(S_x)>>), PyInt(5)>>),
                          PyDict(<<K_k>>, <<EmptyDict>>)}),
                Opt(F_b, {PyStr(S_12)}) >>)

FreeInputs ==
    AllDicts(<< Opt(F_b, {PyStr(S_abc)}), Opt(F_c, {L_10_20}) >>)

TagInputs ==
    AllDicts(<< Opt(F_b, {PyInt(2)}) >>)

WrapInputs ==
    AllDicts(<< Opt(F_tag, {PyNone, PyDict(<<F_b>>, <<PyInt(2)>>)}) >>)

\* Chains of one to three entities; every mapping that is not empty carries
\* the key next.
NodeChain1 == PyDict(<<F_val, F_next>>, <<PyInt(3), PyNone>>)
NodeChain2 == PyDict(<<F_val, F_next>>, <<PyInt(2), NodeChain1>>)
NodeInputs ==
    { EmptyDict, NodeChain1, NodeChain2, PyDict(<<F_next>>, <<NodeChain1>>),
      PyDict(<<F_val, F_next>>, <<PyInt(1), NodeChain2>>) }

Inputs(cls) ==
    CASE cls = "Leaf" -> LeafInputs
      [] cls = "Free" -> FreeInputs
      [] cls \in {"Doc", "DocN"} -> DocInputs
      [] cls \in {"Box", "BoxN"} -> BoxInputs
      [] cls \in {"Tree", "TreeN"} -> TreeInputs
      [] cls = "Tag" -> TagInputs
      [] cls \in {"Wrap", "WrapN"} -> WrapInputs
      [] cls = "Node" -> NodeInputs

(***************************************************************************)
(* Import and export of one entity, step by step                           *)
(***************************************************************************)
\* imp: the import in progress.  pc is the position in __init__ ("validate",
\* "assign" of the i-th field, "done", "failed"), dct the __dict__ of the
\* instance so far, err the exception that ended it and at the step that
\* raised it.
\* exp: the export made of the imported entity, and the entity a second import
\* of a nested export produced (re).
NoOutcome == Ok(PyNone)

ImpStart(cls, kwargs) ==
    [cls |-> cls, kwargs |-> kwargs, pc |-> "validate", i |-> 1, dct |-> EmptyDict,
     err |-> NoOutcome, at |-> "none"]

ImpIdle == ImpStart("Free", EmptyDict)

ExpIdle ==
    [pc |-> "idle", stringify |-> FALSE, use_prefix |-> FALSE, res |-> NoOutcome,
     re |-> NoOutcome]

\* The attribute of the entities of the accessor specification, and the state
\* of its variables while none is declared.
F_attr == <<"a", "t", "t", "r">>
NoDescriptor == Descriptor("None", "", PyNone, PyNone, FALSE, FALSE)
NoSlots == [inst \in {1, 2} |-> [dct |-> EmptyDict, ref |-> "none"]]
NoLast == [op |-> "none", inst |-> 0, raw |-> PyNone, res |-> NoOutcome]

\* walk: an export followed call by call.  stack holds the calls of
\* recursive_to_json that are still to be made, the next one first; how names
\* the branch the last call took, err tells whether it raised and use_prefix
\* is the flag the export was called with.
WalkIdle == [pc |-> "idle", stack |-> <<>>, how |-> "none", err |-> FALSE, use_prefix |-> FALSE]

Init ==
    /\ \E cls \in Classes : \E kwargs \in Inputs(cls) : imp = ImpStart(cls, kwargs)
    /\ exp = ExpIdle
    /\ desc = NoDescriptor
    /\ lit = PyNone
    /\ slots = NoSlots
    /\ last = NoLast
    /\ walk = WalkIdle

\* The state after self.validate_required_fields(kwargs) ended with r.
Validated(s, r) ==
    IF r.out = "raise" THEN [s EXCEPT !.pc = "failed", !.err = r, !.at = "validate"]
    ELSE [s EXCEPT !.pc = "assign"]

Validate ==
    /\ imp.pc = "validate"
    /\ imp' = Validated(imp, validate_required_fields(imp.cls, imp.kwargs))
    /\ UNCHANGED <<desc, slots, lit, last, exp, walk>>

\* The state after the setattr of the i-th field ended with r.
Assigned(s, r) ==
    IF r.out = "raise" THEN [s EXCEPT !.pc = "failed", !.err = r, !.at = "assign"]
    ELSE [s EXCEPT !.dct = r.val, !.i = s.i + 1,
                   !.pc = IF s.i = Len(fields(s.cls)) THEN "done" ELSE "assign"]

Assign ==
    /\ imp.pc = "assign"
    /\ imp' = Assigned(imp, import_step(imp.cls, imp.kwargs, imp.i, imp.dct))
    /\ UNCHANGED <<desc, slots, lit, last, exp, walk>>

\* The entity __init__ returned.
Entity == PyObj(imp.cls, imp.dct)

ExportNested ==
    /\ imp.pc = "done"
    /\ exp.pc = "idle"
    /\ ClassTable[imp.cls].exp = "nested"
    /\ \E stringify \in BOOLEAN :
          exp' = [pc |-> "nested", stringify |-> stringify, use_prefix |-> FALSE,
                  res |-> ExportJsonMixin_to_json(Entity, stringify), re |-> NoOutcome]
    /\ UNCHANGED <<desc, slots, lit, last, imp, walk>>

ExportFlat ==
    /\ imp.pc = "done"
    /\ exp.pc = "idle"
    /\ ClassTable[imp.cls].exp = "flat"
    /\ \E stringify \in BOOLEAN, use_prefix \in BOOLEAN :
          exp' = [pc |-> "flat", stringify |-> stringify, use_prefix |-> use_prefix,
                  res |-> FlatExportJsonMixin_to_json(Entity, stringify, use_prefix),
                  re |-> NoOutcome]
    /\ UNCHANGED <<desc, slots, lit, last, imp, walk>>

\* type(entity)(**entity.to_json()): the nested export is imported again.
Reimport ==
    /\ exp.pc = "nested"
    /\ exp.res.out = "ok"
    /\ exp' = [exp EXCEPT !.pc = "reimported", !.re = ImportJsonMixin_init(imp.cls, exp.res.val)]
    /\ UNCHANGED <<desc, slots, lit, last, imp, walk>>

Next == Validate \/ Assign \/ ExportNested \/ ExportFlat \/ Reimport

Spec == Init /\ [][Next]_vars

(***************************************************************************)
(* One accessor on two sibling entities                                    *)
(***************************************************************************)
\* desc is the descriptor as constructed (its default is a Python object the
\* closure of __init__ keeps a reference to, so it can change afterwards),
\* lit the default it was configured with, slots[inst].dct the __dict__ of
\* entity inst, slots[inst].ref whether the container it holds is the default
\* object itself ("default") or a container of its own ("fresh"), and last
\* the last operation with its outcome.
MaxLen == 2

Insts == {1, 2}

LeafObj == PyObj("Leaf", PyDict(<<F_name, F_n>>, <<PyStr(S_x), PyInt(0)>>))
FreeObj == PyObj("Free", PyDict(<<F_b, F_c>>, <<PyInt(7), PyNone>>))
Float_m3_7 == PyFloat("fin", TRUE, 3, <<"7">>)
Float_inf == PyFloat("inf", FALSE, 0, <<>>)
L_uuids == PyList(<<PyStr(S_not_a_uuid), PyStr(S_uuid1), PyInt(5)>>)
L_ints == PyList(<<PyInt(1), PyStr(<<"2">>), PyStr(S_x)>>)

\* The descriptors of the model: every kind with no default, a literal
\* default and a default factory, the identifier kinds strict and not.  The
\* one combination left out is StrUuidDescriptor(default="not-a-uuid",
\* raise_on_error=True), whose constructor raises.
Configs ==
    { Descriptor("Int", "", PyNone, PyNone, FALSE, TRUE),
      Descriptor("Int", "", PyInt(3), PyNone, FALSE, TRUE),
      Descriptor("Int", "", Float_m3_7, PyNone, FALSE, TRUE),
      Descriptor("Int", "", PyInt(3), PyFn(PyInt(9)), FALSE, TRUE),
      Descriptor("Float", "", PyNone, PyNone, FALSE, TRUE),
      Descriptor("Float", "", PyInt(2), PyNone, FALSE, TRUE),
      Descriptor("Bool", "", PyNone, PyNone, FALSE, TRUE),
      Descriptor("Bool", "", PyBool(TRUE), PyNone, FALSE, TRUE),
      Descriptor("Uuid", "", PyNone, PyNone, FALSE, TRUE),
      Descriptor("Uuid", "", PyNone, PyNone, TRUE, TRUE),
      Descriptor("Uuid", "", U1, PyNone, FALSE, TRUE),
      Descriptor("Uuid", "", U1, PyNone, TRUE, TRUE),
      Descriptor("Uuid", "", PyStr(S_uuid3), PyNone, FALSE, TRUE),
      Descriptor("Uuid", "", PyStr(S_uuid3), PyNone, TRUE, TRUE),
      Descriptor("Uuid", "", PyStr(S_not_a_uuid), PyNone, FALSE, TRUE),
      Descriptor("Uuid", "", PyNone, PyFn(U2), FALSE, TRUE),
      Descriptor("ListUuid", "", PyNone, PyNone, FALSE, TRUE),
      Descriptor("ListUuid", "", PyNone, PyNone, TRUE, TRUE),
      Descriptor("ListUuid", "", L_uuids, PyNone, FALSE, TRUE),
      Descriptor("ListUuid", "", L_uuids, PyNone, TRUE, TRUE),
      Descriptor("ListUuid", "", PyNone, PyFn(PyList(<<>>)), FALSE, TRUE),
      Descriptor("ListInt", "", PyNone, PyNone, FALSE, TRUE),
      Descriptor("ListInt", "", L_ints, PyNone, FALSE, TRUE),
      Descriptor("ListInt", "", PyNone, PyFn(PyList(<<>>)), FALSE, TRUE),
      Descriptor("Single", "Leaf", PyNone, PyNone, FALSE, TRUE),
      Descriptor("Single", "Leaf", PyNone, PyNone, FALSE, FALSE),
      Descriptor("Single", "Free", PyNone, PyNone, FALSE, FALSE),
      Descriptor("Single", "Leaf", LeafObj, PyNone, FALSE, TRUE),
      Descriptor("Single", "Free", PyNone, PyNone, FALSE, TRUE),
      Descriptor("Single", "Leaf", PyNone, PyFn(LeafObj), FALSE, FALSE),
      Descriptor("Single", "Leaf", LeafObj, PyFn(PyNone), FALSE, FALSE),
      Descriptor("ObjList", "Free", PyNone, PyNone, FALSE, TRUE),
      Descriptor("ObjList", "Free", PyList(<<FreeObj>>), PyNone, FALSE, TRUE),
      Descriptor("ObjList", "Free", PyNone, PyFn(PyList(<<>>)), FALSE, TRUE),
      Descriptor("Map", "Leaf", PyNone, PyNone, FALSE, TRUE),
      Descriptor("Map", "Leaf", PyDict(<<K_k>>, <<LeafObj>>), PyNone, FALSE, TRUE),
      Descriptor("Map", "Leaf", PyNone, PyFn(EmptyDict), FALSE, TRUE) }

\* The raw values written through a descriptor of each kind.
Raws(kind) ==
    CASE kind = "Int" ->
            { PyNone, PyStr(S_empty), PyStr(S_12_0), PyStr(S_m3_7), PyStr(S_abc), PyStr(S_inf),
              PyStr(S_nan), PyInt(3), Float_m3_7, Float_inf, PyBool(TRUE), L_10_20 }
      [] kind = "Float" ->
            { PyNone, PyStr(S_empty), PyStr(S_12_0), PyStr(S_abc), PyInt(3), L_10_20 }
      [] kind = "Bool" ->
            { PyNone, PyBool(TRUE), PyBool(FALSE), PyInt(0), PyInt(5), PyStr(S_abc) }
      [] kind = "Uuid" ->
            { PyNone, PyStr(S_empty), U1, PyStr(S_uuid2), PyStr(S_uuid3), PyStr(S_not_a_uuid),
              PyInt(5), PyInt(0), L_10_20 }
      [] kind = "ListUuid" ->
            { PyNone, L_uuids, PyList(<<PyStr(S_uuid3), U1, PyStr(S_uuid2)>>), PyList(<<>>),
              PyList(<<PyInt(5), PyStr(S_not_a_uuid)>>), PyInt(5), PyStr(S_uuid1) }
      [] kind = "ListInt" ->
            { PyNone, L_ints, PyList(<<Float_m3_7, PyBool(TRUE), PyNone, PyStr(S_12_0)>>),
              PyList(<<>>), PyInt(5) }
      [] kind = "Single" ->
            { PyNone, EmptyDict, PyInt(0), PyInt(5), PyDict(<<F_name>>, <<PyStr(S_x)>>),
              PyDict(<<F_n>>, <<PyInt(3)>>), LeafObj, FreeObj }
      [] kind = "ObjList" ->
            { PyNone, PyInt(5), PyList(<<>>), PyList(<<FreeObj>>),
              PyList(<<EmptyDict, PyInt(5), PyDict(<<F_b>>, <<PyStr(S_12_0)>>)>>) }
      [] kind = "Map" ->
            { PyNone, PyInt(5), EmptyDict, PyDict(<<K_k>>, <<LeafObj>>),
              PyDict(<<K_k, K_j>>, <<PyDict(<<F_name>>, <<PyStr(S_x)>>), PyInt(5)>>),
              PyDict(<<K_k>>, <<EmptyDict>>) }

\* lambda: default of ObjectListDescriptor and MapObjectDescriptor returns the
\* default object itself; every other default source makes a new container.
shares_default(d) == d.kind \in {"ObjList", "Map"} /\ default_source(d) = "lambda_default"
DefaultRef(d) == IF shares_default(d) THEN "default" ELSE "fresh"

\* The two entities before anything is written through the accessor: each
\* holds one other, plain attribute.
F_other == <<"o", "t", "h", "e", "r">>
NewSlots == [inst \in Insts |-> [dct |-> PyDict(<<F_other>>, <<PyInt(inst)>>), ref |-> "none"]]

InitAccessor ==
    /\ desc \in Configs
    /\ lit = desc.default
    /\ slots = NewSlots
    /\ last = NoLast
    /\ imp = ImpIdle
    /\ exp = ExpIdle
    /\ walk = WalkIdle

\* A write that, when it raises, leaves None under the attribute.
Written_clearing(inst, raw, r) ==
    /\ slots' = [slots EXCEPT ![inst] =
                    [dct |-> DictSet(slots[inst].dct, F_attr, IF r.out = "ok" THEN r.val ELSE PyNone),
                     ref |-> IF r.out = "ok" /\ r.dflt THEN DefaultRef(desc) ELSE "fresh"]]
    /\ last' = [op |-> "write", inst |-> inst, raw |-> raw, res |-> r]
    /\ UNCHANGED <<desc, lit, imp, exp, walk>>

\* setattr(entity, attr, raw) ended with r.
Written(inst, raw, r) ==
    /\ slots' = IF r.out = "ok"
                THEN [slots EXCEPT ![inst] =
                        [dct |-> DictSet(slots[inst].dct, F_attr, r.val),
                         ref |-> IF r.dflt THEN DefaultRef(desc) ELSE "fresh"]]
                ELSE slots
    /\ last' = [op |-> "write", inst |-> inst, raw |-> raw, res |-> r]
    /\ UNCHANGED <<desc, lit, imp, exp, walk>>

\* A write of a raw value, or of the descriptor itself (what ImportJsonMixin
\* passes for a key that is absent).
Write ==
    \E inst \in Insts : \E raw \in Raws(desc.kind) \cup {desc} :
        Written(inst, raw, descriptor_set(desc, raw))

\* getattr(entity, attr) ended with g.res and left the __dict__ g.dct.
WasRead(inst, g) ==
    /\ slots' = [slots EXCEPT ![inst] =
                    [dct |-> g.dct,
                     ref |-> IF g.dct # slots[inst].dct THEN DefaultRef(desc)
                             ELSE slots[inst].ref]]
    /\ last' = [op |-> "read", inst |-> inst, raw |-> PyNone, res |-> g.res]
    /\ UNCHANGED <<desc, lit, imp, exp, walk>>

Read == \E inst \in Insts : WasRead(inst, descriptor_get(desc, slots[inst].dct, F_attr))

\* container.append(x) / container[key] = x
Size(c) == IF c.k = "list" THEN Len(c.items) ELSE Len(c.keys)
Grown(c) ==
    IF c.k = "list" THEN PyList(Append(c.items, PyStr(S_x)))
    ELSE DictSet(c, NatToStr(Len(c.keys)), PyStr(S_x))

\* Which container __get__ returned: the one the entity holds, or what the
\* default source made.
ReadRef(inst) ==
    IF DictGet(slots[inst].dct, F_attr).k # "none" THEN slots[inst].ref ELSE DefaultRef(desc)

\* getattr(entity, attr) returned the container g.val, and the caller changes
\* it in place: every holder of that container sees the change.
Mutated(inst, g) ==
    /\ g.out = "ok"
    /\ g.val.k \in {"list", "dict"}
    /\ Size(g.val) < MaxLen
    /\ desc' = IF ReadRef(inst) = "default" THEN [desc EXCEPT !.default = Grown(g.val)] ELSE desc
    /\ slots' = [i \in Insts |->
                    IF \/ (ReadRef(inst) = "default" /\ slots[i].ref = "default")
                       \/ (i = inst /\ DictGet(slots[inst].dct, F_attr).k # "none")
                    THEN [slots[i] EXCEPT !.dct = DictSet(slots[i].dct, F_attr, Grown(g.val))]
                    ELSE slots[i]]
    /\ last' = [op |-> "mutate", inst |-> inst, raw |-> PyNone, res |-> NoOutcome]
    /\ UNCHANGED <<lit, imp, exp, walk>>

Mutate ==
    \E inst \in Insts : Mutated(inst, descriptor_get(desc, slots[inst].dct, F_attr).res)

NextAccessor == Write \/ Read \/ Mutate

SpecAccessor == InitAccessor /\ [][NextAccessor]_vars

(***************************************************************************)
(* An export followed call by call                                         *)
(***************************************************************************)
\* A call recursive_to_json(obj) that is still to be made, inside the to_json
\* of an entity of type self_cls with the export mixin mode; prefix_none tells
\* that the prefix it is given is None.
ValFrame(obj, self_cls, mode, use_prefix, prefix_none) ==
    [t |-> "val", obj |-> obj, i |-> 0, self_cls |-> self_cls, mode |-> mode,
     use_prefix |-> use_prefix, prefix_none |-> prefix_none]

\* The i-th iteration of the loop over fields(obj) that is still to be made:
\* getattr(obj, field.name), then recursive_to_json of the value.
AttrFrame(f, i) == [f EXCEPT !.t = "attr", !.i = i]

\* new_prefix of FlatExportJsonMixin is None unless use_prefix is set.
child_prefix_none(f) == f.mode = "flat" /\ ~f.use_prefix

\* obj.to_json(...): recursive_to_json(self), with the prefix "" in flat mode.
CallFrame(obj, use_prefix) ==
    ValFrame(obj, obj.cls, ClassTable[obj.cls].exp, use_prefix, FALSE)

\* A test that delegates to every value with an export of its own.
nested_delegates_unguarded(obj, self_cls) == has_to_json(obj)

\* hasattr(obj, 'to_json') and not obj_type == instance_type and callable(obj.to_json)
nested_delegates(obj, self_cls) == has_to_json(obj) /\ obj.cls # self_cls

\* hasattr(obj, "to_json") and callable(obj.to_json) and not isinstance(obj, type(self))
flat_delegates(obj, self_cls) == has_to_json(obj) /\ obj.cls # self_cls

Delegates(f) ==
    IF f.mode = "nested" THEN nested_delegates(f.obj, f.self_cls)
    ELSE flat_delegates(f.obj, f.self_cls)

\* The call on top of the stack returned after asking for the calls pushed.
Continue(how, pushed) ==
    walk' = [walk EXCEPT !.pc = IF pushed \o Tail(walk.stack) = <<>> THEN "done" ELSE "run",
                         !.stack = pushed \o Tail(walk.stack),
                         !.how = how,
                         !.err = FALSE]

\* The call on top of the stack raised: the exception ends the export.
Abort(how) == walk' = [walk EXCEPT !.pc = "done", !.stack = <<>>, !.how = how, !.err = TRUE]

Top == Head(walk.stack)
AtValue == walk.pc = "run" /\ Top.t = "val"

\* The export starts on an entity a completed import returned.
ImpDone(obj, kwargs) ==
    [cls |-> obj.cls, kwargs |-> kwargs, pc |-> "done", i |-> Len(fields(obj.cls)) + 1,
     dct |-> obj.d, err |-> NoOutcome, at |-> "none"]

InitWalk ==
    /\ \E cls \in { c \in Classes : ClassTable[c].exp # "none" } :
       \E kwargs \in { k \in Inputs(cls) : ImportJsonMixin_init(cls, k).out = "ok" } :
       \E use_prefix \in { u \in BOOLEAN : ClassTable[cls].exp = "flat" \/ ~u } :
          /\ imp = ImpDone(ImportJsonMixin_init(cls, kwargs).val, kwargs)
          /\ walk = [pc |-> "run",
                     stack |-> <<CallFrame(ImportJsonMixin_init(cls, kwargs).val, use_prefix)>>,
                     how |-> "call", err |-> FALSE, use_prefix |-> use_prefix]
    /\ exp = ExpIdle
    /\ desc = NoDescriptor
    /\ lit = PyNone
    /\ slots = NoSlots
    /\ last = NoLast

\* The branch for a value with an export of its own: obj.to_json() is called.
\* (What it returns is a dict, which the flat branch merges without a further
\* call.)
WalkDelegate ==
    /\ AtValue
    /\ Delegates(Top)
    /\ Continue("delegate", <<CallFrame(Top.obj, FALSE)>>)
    /\ UNCHANGED <<desc, slots, lit, last, imp, exp>>

\* The is_dataclass branch: one iteration per field, in declaration order.
WalkFields ==
    /\ AtValue
    /\ ~Delegates(Top)
    /\ is_dataclass(Top.obj)
    /\ Continue("fields", [i \in 1..Len(fields(Top.obj.cls)) |-> AttrFrame(Top, i)])
    /\ UNCHANGED <<desc, slots, lit, last, imp, exp>>

\* One iteration of the loop over the fields: getattr raised, or its value is
\* the next call.
Got(g) ==
    IF g.out = "raise" THEN Abort("getattr")
    ELSE Continue("getattr", <<ValFrame(g.val, Top.self_cls, Top.mode, Top.use_prefix,
                                        child_prefix_none(Top))>>)

WalkAttr ==
    /\ walk.pc = "run"
    /\ Top.t = "attr"
    /\ Got(getattr(Top.obj, fields(Top.obj.cls)[Top.i]))
    /\ UNCHANGED <<desc, slots, lit, last, imp, exp>>

\* The list and dict branches: one call per item or value, in order.
Items(xs, f) ==
    [i \in 1..Len(xs) |-> ValFrame(xs[i], f.self_cls, f.mode, f.use_prefix, child_prefix_none(f))]

WalkList ==
    /\ AtValue
    /\ Top.obj.k = "list"
    /\ Continue("list", Items(Top.obj.items, Top))
    /\ UNCHANGED <<desc, slots, lit, last, imp, exp>>

WalkDict ==
    /\ AtValue
    /\ Top.obj.k = "dict"
    /\ Continue("dict", Items(Top.obj.vals, Top))
    /\ UNCHANGED <<desc, slots, lit, last, imp, exp>>

\* The else branch: a scalar is rendered; in flat mode prefix.rstrip(".")
\* raises when the prefix is None.
WalkLeaf ==
    /\ AtValue
    /\ Top.obj.k \notin {"obj", "list", "dict"}
    /\ IF Top.mode = "flat" /\ Top.prefix_none THEN Abort("leaf") ELSE Continue("leaf", <<>>)
    /\ UNCHANGED <<desc, slots, lit, last, imp, exp>>

NextWalk == WalkDelegate \/ WalkFields \/ WalkAttr \/ WalkList \/ WalkDict \/ WalkLeaf

\* A call that can be made is made: the interpreter runs the export to its end.
SpecWalk == InitWalk /\ [][NextWalk]_vars /\ WF_vars(NextWalk)

(***************************************************************************)
(* Properties of import and export (specification Spec)                    *)
(***************************************************************************)
Names(seq) == { seq[i] : i \in 1..Len(seq) }

\* The declared attributes of cls with neither a literal default nor a default
\* factory that kwargs lacks or maps to None.
RequiredMissing(cls, kwargs) ==
    { fields(cls)[i].name : i \in
        { j \in 1..Len(fields(cls)) :
            /\ fields(cls)[j].default = MISSING
            /\ fields(cls)[j].factory = MISSING
            /\ \A p \in 1..Len(kwargs.keys) :
                  kwargs.keys[p] = fields(cls)[j].name => kwargs.vals[p].k = "none" } }

FailedWith(e) == imp.pc = "failed" /\ imp.err.err = e

\* C1, as claimed: import fails with MissingRequiredFieldsError if and only if
\* a declared attribute with neither default nor factory is absent from the
\* mapping or mapped to None, and the message then names every such attribute.
C1_MissingIffRequired ==
    imp.pc \in {"done", "failed"} =>
        /\ FailedWith("MissingRequiredFieldsError") <=> RequiredMissing(imp.cls, imp.kwargs) # {}
        /\ FailedWith("MissingRequiredFieldsError") =>
              Names(imp.err.missing) = RequiredMissing(imp.cls, imp.kwargs)

\* C1, amended: the entity's own validation fails, with
\* MissingRequiredFieldsError, if and only if a declared attribute with
\* neither default nor factory is absent or None, and the message names every
\* such attribute once; a MissingRequiredFieldsError raised later comes from
\* the assignment of a nested-entity attribute.
C1_ValidationIffRequired ==
    imp.pc # "validate" =>
        /\ imp.at = "validate" <=> RequiredMissing(imp.cls, imp.kwargs) # {}
        /\ imp.at = "validate" =>
              /\ imp.err.err = "MissingRequiredFieldsError"
              /\ Names(imp.err.missing) = RequiredMissing(imp.cls, imp.kwargs)
              /\ Len(imp.err.missing) = Cardinality(RequiredMissing(imp.cls, imp.kwargs))
        /\ (imp.at = "assign" /\ imp.err.err = "MissingRequiredFieldsError") =>
              IsObjectFieldDescriptor(fields(imp.cls)[imp.i].default)

\* C1: a validation that failed on two missing attributes at once.
C1_Witness ==
    /\ imp.at = "validate"
    /\ Cardinality(RequiredMissing(imp.cls, imp.kwargs)) = 2
    /\ Len(imp.err.missing) = 2

\* C2, as claimed: import returns an entity with every declared attribute
\* assigned, or fails with MissingRequiredFieldsError before any attribute is
\* set; it never fails after some attributes were assigned.
C2_Atomic ==
    /\ imp.pc = "done" => \A i \in 1..Len(fields(imp.cls)) : HasKey(imp.dct, fields(imp.cls)[i].name)
    /\ imp.pc = "failed" => imp.err.err = "MissingRequiredFieldsError" /\ imp.dct = EmptyDict

\* C2, amended: import returns an entity with every declared attribute
\* assigned, or fails; a failure of the entity's own validation is a
\* MissingRequiredFieldsError raised before any attribute is set; any other
\* failure is raised by the write of an accessor-governed attribute, after
\* exactly the attributes declared before it were assigned.
C2_AssignedOrFailed ==
    /\ imp.pc = "done" => \A i \in 1..Len(fields(imp.cls)) : HasKey(imp.dct, fields(imp.cls)[i].name)
    /\ imp.at = "validate" =>
          imp.pc = "failed" /\ imp.err.err = "MissingRequiredFieldsError" /\ imp.dct = EmptyDict
    /\ imp.at = "assign" =>
          /\ imp.pc = "failed"
          /\ fields(imp.cls)[imp.i].default.k = "descr"
          /\ imp.dct.keys = [j \in 1..(imp.i - 1) |-> fields(imp.cls)[j].name]
    /\ imp.pc = "failed" <=> imp.at # "none"

\* C2: an import that failed after an attribute was assigned.
C2_Witness == imp.pc = "failed" /\ imp.at = "assign" /\ imp.dct # EmptyDict

\* C5: export never raises for an entity graph of scalars, entities, lists
\* and maps, nested or flat, whatever the stringify and key-path flags.
C5_ExportNeverRaises == exp.pc # "idle" => exp.res.out = "ok"

\* C6: the nested export of an imported entity imports again to an entity
\* equal to it.
C6_RoundTrip == (exp.pc = "reimported" /\ ~exp.stringify) => exp.re = Ok(Entity)

\* C6: a round trip of an entity that holds a nested entity.
C6_Witness ==
    /\ exp.pc = "reimported"
    /\ ~exp.stringify
    /\ imp.cls = "BoxN"
    /\ DictGet(imp.dct, F_child).k = "obj"
    /\ exp.re = Ok(Entity)

\* A path to a value: attribute names and map keys, and list indexes.
Attr(name) == [c |-> "name", name |-> name]
Idx(i) == [c |-> "idx", idx |-> i]

\* The key of a path: names joined by dots, indexes in brackets.
Joined(init, step) ==
    IF step.c = "idx" THEN init \o <<"[">> \o IntToStr(step.idx) \o <<"]">>
    ELSE IF init = <<>> THEN step.name
    ELSE init \o <<".">> \o step.name

RECURSIVE RenderPath(_)
RenderPath(path) ==
    IF path = <<>> THEN <<>>
    ELSE Joined(RenderPath(SubSeq(path, 1, Len(path) - 1)), path[Len(path)])

Entries(d) == { [key |-> d.keys[i], val |-> d.vals[i]] : i \in 1..Len(d.keys) }
Failure == [fail |-> TRUE]

\* The scalar leaves of a value, each with its path: entities are descended
\* by attribute, lists by index, maps by key.
RECURSIVE ScalarLeaves(_, _)
ScalarLeaves(v, path) ==
    IF v.k = "obj"
    THEN UNION { ScalarLeaves(getattr(v, fields(v.cls)[i]).val, Append(path, Attr(fields(v.cls)[i].name))) :
                    i \in 1..Len(fields(v.cls)) }
    ELSE IF v.k = "list"
    THEN UNION { ScalarLeaves(v.items[i], Append(path, Idx(i - 1))) : i \in 1..Len(v.items) }
    ELSE IF v.k = "dict"
    THEN UNION { ScalarLeaves(v.vals[i], Append(path, Attr(v.keys[i]))) : i \in 1..Len(v.keys) }
    ELSE { [path |-> path, val |-> v] }

\* The same, except that a value of another entity type with an export of its
\* own stands for the entries of that export (or for its failure).
Delegated(r, path) ==
    IF r.out = "raise" THEN { Failure }
    ELSE { [path |-> Append(path, Attr(r.val.keys[i])), val |-> r.val.vals[i]] :
              i \in 1..Len(r.val.keys) }

RECURSIVE FlatLeaves(_, _, _, _)
FlatLeaves(v, path, self_cls, stringify) ==
    IF has_to_json(v) /\ v.cls # self_cls THEN Delegated(to_json(v, stringify), path)
    ELSE IF v.k = "obj"
    THEN UNION { FlatLeaves(getattr(v, fields(v.cls)[i]).val,
                            Append(path, Attr(fields(v.cls)[i].name)), self_cls, stringify) :
                    i \in 1..Len(fields(v.cls)) }
    ELSE IF v.k = "list"
    THEN UNION { FlatLeaves(v.items[i], Append(path, Idx(i - 1)), self_cls, stringify) :
                    i \in 1..Len(v.items) }
    ELSE IF v.k = "dict"
    THEN UNION { FlatLeaves(v.vals[i], Append(path, Attr(v.keys[i])), self_cls, stringify) :
                    i \in 1..Len(v.keys) }
    ELSE { [path |-> path, val |-> IF stringify THEN PyStr(py_str(v)) ELSE v] }

Keyed(leaves) == { [key |-> RenderPath(l.path), val |-> l.val] : l \in leaves }

\* The export r has exactly one entry per leaf, keyed by the leaf's path.
OneEntryPerLeaf(r, leaves) ==
    /\ r.out = "ok"
    /\ Entries(r.val) = Keyed(leaves)
    /\ Len(r.val.keys) = Cardinality(leaves)

WriteDone == last.op = "write"
ReadDone == last.op = "read"

\* The raw values for which the rule of the kind asks the default source for
\* the value to store: the empty ones and, in non-strict mode, the invalid
\* ones.
FallsBack(d, raw) ==
    CASE d.kind = "Int" ->
            \/ raw.k \notin {"str", "int", "bool", "float"}
            \/ raw.k = "str" /\ float_of_str(raw.s).out = "raise"
            \/ raw.k = "str" /\ float_of_str(raw.s).out = "ok" /\ float_of_str(raw.s).val.fcls = "nan"
      [] d.kind = "Float" ->
            \/ raw.k \notin {"str", "int", "bool", "float"}
            \/ raw.k = "str" /\ float_of_str(raw.s).out = "raise"
      [] d.kind = "Bool" -> raw.k \notin {"bool", "int"}
      [] d.kind = "Uuid" ->
            \/ ~Truthy(raw)
            \/ raw.k = "descr"
            \/ raw.k = "str" /\ uuid_UUID(raw.s).out = "raise"
      [] d.kind \in {"ListUuid", "ListInt", "ObjList"} -> raw.k # "list"
      [] d.kind = "Map" -> raw.k # "dict"
      [] d.kind = "Single" -> ~Truthy(raw)

\* The construction of a nested entity from a mapping inside raw fails.
ConstructionFails(d, raw) ==
    \/ d.kind = "Single" /\ raw.k = "dict" /\ ImportJsonMixin_init(d.cls, raw).out = "raise"
    \/ /\ d.kind = "ObjList"
       /\ raw.k = "list"
       /\ \E i \in 1..Len(raw.items) :
             raw.items[i].k = "dict" /\ ImportJsonMixin_init(d.cls, raw.items[i]).out = "raise"
    \/ /\ d.kind = "Map"
       /\ raw.k = "dict"
       /\ \E i \in 1..Len(raw.vals) :
             raw.vals[i].k = "dict" /\ ImportJsonMixin_init(d.cls, raw.vals[i]).out = "raise"

\* The raw values a non-strict write rejects by raising: an infinite or NaN
\* float (or a string that reads as an infinity) for an integer, a truthy
\* value that is no identifier, string or accessor for an identifier, a
\* truthy value that is no mapping and no instance for a single nested
\* entity, and a mapping from which no nested entity can be constructed.
RaisesByRule(d, raw) ==
    \/ d.kind = "Int" /\ raw.k = "float" /\ raw.fcls # "fin"
    \/ d.kind = "Int" /\ raw.k = "str" /\ float_of_str(raw.s).out = "ok"
          /\ float_of_str(raw.s).val.fcls = "inf"
    \/ d.kind = "Uuid" /\ Truthy(raw) /\ raw.k \notin {"uuid", "str", "descr"}
    \/ d.kind = "Single" /\ Truthy(raw) /\ raw.k # "dict" /\ ~IsInstance(raw, d.cls)
    \/ ConstructionFails(d, raw)

\* C3, as claimed: a write never raises unless the accessor is strict, and in
\* non-strict mode a malformed raw value stores the default source's result.
C3_NonStrictNeverRaises ==
    (WriteDone /\ ~desc.strict) =>
        /\ last.res.out = "ok"
        /\ FallsBack(desc, last.raw) => last.res.dflt

\* C3, amended: in non-strict mode a write for which the rule of the kind
\* falls back to the default source ends as the default source does (its
\* result is stored, or its exception raised); any other write raises exactly
\* for the raw values the rule rejects by raising.
C3_NonStrictWrite ==
    (WriteDone /\ ~desc.strict) =>
        IF FallsBack(desc, last.raw) THEN last.res = MarkDefault(call_default(desc))
        ELSE last.res.out = "raise" <=> RaisesByRule(desc, last.raw)

\* C3: a non-strict identifier write of "not-a-uuid" stored the default.
C3_Witness ==
    /\ WriteDone
    /\ desc.kind = "Uuid"
    /\ ~desc.strict
    /\ last.raw = PyStr(S_not_a_uuid)
    /\ last.res.out = "ok"
    /\ last.res.dflt
    /\ DictGet(slots[last.inst].dct, F_attr) = U1

RaiseIfMissing == {"raise_on_value_missed", "_raise_no_default"}

\* C4: every constructed accessor has a default source, a read returns the
\* stored value when one is held and the default source's result otherwise,
\* and the only read that fails is one of a never-set attribute whose default
\* source is raise-if-missing.
C4_ReadFailsOnlyIfMissing ==
    ReadDone =>
        /\ default_source(desc) # "unset"
        /\ last.res.out = "ok" =>
              \/ last.res.val = DictGet(slots[last.inst].dct, F_attr)
              \/ last.res = call_default(desc)
        /\ last.res.out = "raise" =>
              /\ default_source(desc) \in RaiseIfMissing
              /\ ~HasKey(slots[last.inst].dct, F_attr)

\* C7: the list or map an entity obtains by default is never the container a
\* sibling entity obtains, and the configured default never changes.
C7_DefaultIsolation ==
    desc.kind \in {"ObjList", "Map", "ListInt", "ListUuid"} =>
        /\ desc.default = lit
        /\ ~(slots[1].ref = "default" /\ slots[2].ref = "default")

\* A decimal numeral: a finite float reads from it.
NumericString(raw) ==
    raw.k = "str" /\ float_of_str(raw.s).out = "ok" /\ float_of_str(raw.s).val.fcls = "fin"

\* C8: with a configured default, writing an int, a float or a numeric string
\* stores its truncation to an integer, and writing "", None or a non-numeric
\* string stores the configured default and raises nothing.
C8_IntegerCoercion ==
    (WriteDone /\ desc.kind = "Int" /\ call_default(desc).out = "ok") =>
        /\ last.raw.k \in {"int", "float"} => last.res.out = "ok" /\ last.res.val.k = "int"
        /\ NumericString(last.raw) =>
              last.res = Stored(int_of_num(float_of_str(last.raw.s).val).val)
        /\ (last.raw.k = "none" \/ (last.raw.k = "str" /\ ~NumericString(last.raw))) =>
              last.res = MarkDefault(call_default(desc))

IsIdentifier(x) == x.k = "uuid" \/ uuid_UUID(py_str(x)).out = "ok"
AsIdentifier(x) == IF x.k = "uuid" THEN x ELSE uuid_UUID(py_str(x)).val
Identifiers(xs) ==
    [i \in 1..Len(SelectSeq(xs, IsIdentifier)) |-> AsIdentifier(SelectSeq(xs, IsIdentifier)[i])]

RECURSIVE LeavesInOrder(_, _)
RECURSIVE LeavesOfAll(_, _)
LeavesOfAll(vals, names) ==
    IF vals = <<>> THEN <<>>
    ELSE LeavesInOrder(Head(vals), Head(names)) \o LeavesOfAll(Tail(vals), Tail(names))

LeavesInOrder(v, name) ==
    IF v.k = "obj"
    THEN LeavesOfAll([i \in 1..Len(fields(v.cls)) |-> getattr(v, fields(v.cls)[i]).val],
                     [i \in 1..Len(fields(v.cls)) |-> fields(v.cls)[i].name])
    ELSE IF v.k = "list" THEN LeavesOfAll(v.items, [i \in 1..Len(v.items) |-> name])
    ELSE IF v.k = "dict" THEN LeavesOfAll(v.vals, v.keys)
    ELSE << [name |-> name, val |-> v] >>

\* The mapping in which each leaf is entered under its name, a later leaf
\* overwriting an earlier one of the same name.
RECURSIVE LastWins(_, _)
LastWins(leaves, d) ==
    IF leaves = <<>> THEN d
    ELSE LastWins(Tail(leaves), DictSet(d, Head(leaves).name, Head(leaves).val))

\* C11: flat export without key paths returns the mapping keyed by the
\* innermost leaf name of each scalar leaf, the leaf visited later winning a
\* collision, and raises no error.
C11_LeafNameKeys ==
    (exp.pc = "flat" /\ ~exp.use_prefix /\ ~exp.stringify) =>
        exp.res = Ok(LastWins(LeavesInOrder(Entity, <<>>), EmptyDict))

(***************************************************************************)
(* Further properties of the accessors (specification SpecAccessor)        *)
(***************************************************************************)
\* The entries of a written mapping the map-of-entity rule accepts: those
\* whose value is a mapping or an instance of the nested type.
MapAccepted(d, raw) ==
    SelectSeq([i \in 1..Len(raw.keys) |-> [key |-> raw.keys[i], val |-> raw.vals[i]]],
              LAMBDA e : e.val.k = "dict" \/ IsInstance(e.val, d.cls))

\* The nested entity an accepted entry stands for.
MapEntity(d, e) == IF e.val.k = "dict" THEN ImportJsonMixin_init(d.cls, e.val) ELSE Ok(e.val)

\* C12, as claimed: a written mapping is stored with the same key set, and a
\* value that is neither a mapping nor an instance is passed through
\* unchanged under its key.
C12_MapPassThrough ==
    (WriteDone /\ desc.kind = "Map" /\ last.raw.k = "dict" /\ last.res.out = "ok") =>
        /\ last.res.val.keys = last.raw.keys
        /\ \A i \in 1..Len(last.raw.keys) :
              (last.raw.vals[i].k # "dict" /\ ~IsInstance(last.raw.vals[i], desc.cls)) =>
                  last.res.val.vals[i] = last.raw.vals[i]

\* C12, amended: a written mapping is stored as the map of its entries whose
\* value is a mapping (replaced by the nested entity constructed from it) or
\* an instance (kept), in order; every other entry is dropped; the write
\* raises when a nested entity cannot be constructed; a non-mapping ends as
\* the default source does.
C12_MapCoercion ==
    (WriteDone /\ desc.kind = "Map") =>
        IF last.raw.k # "dict" THEN last.res = MarkDefault(call_default(desc))
        ELSE LET acc == MapAccepted(desc, last.raw)
             IN  IF \E i \in 1..Len(acc) : MapEntity(desc, acc[i]).out = "raise"
                 THEN last.res.out = "raise"
                 ELSE last.res = Stored(PyDict([i \in 1..Len(acc) |-> acc[i].key],
                                               [i \in 1..Len(acc) |-> MapEntity(desc, acc[i]).val]))

\* C12: {k: {name: x}, j: 5} was written and stored as {k: Leaf(name = x)}.
C12_Witness ==
    /\ WriteDone
    /\ desc.kind = "Map"
    /\ last.raw = PyDict(<<K_k, K_j>>, <<PyDict(<<F_name>>, <<PyStr(S_x)>>), PyInt(5)>>)
    /\ last.res.out = "ok"
    /\ DictGet(slots[last.inst].dct, F_attr) = PyDict(<<K_k>>, <<LeafObj>>)

\* A truthy raw value that is neither a mapping nor an instance of the nested
\* type.
WrongShaped(d, raw) == Truthy(raw) /\ raw.k # "dict" /\ ~IsInstance(raw, d.cls)

\* C13, as claimed: a wrong-shaped value makes the write raise only when the
\* attribute is not declared optional.
C13_RaisesUnlessOptional ==
    (WriteDone /\ desc.kind = "Single" /\ WrongShaped(desc, last.raw)) =>
        (last.res.out = "raise" <=> ~desc.optional)

\* C13, amended: a falsy raw value ends as the default source does, a mapping
\* as the construction of the nested entity from it does, a matching instance
\* is stored as is, and a wrong-shaped value makes the write raise whether
\* the attribute is optional or not.
C13_SingleWrite ==
    (WriteDone /\ desc.kind = "Single") =>
        IF ~Truthy(last.raw) THEN last.res = MarkDefault(call_default(desc))
        ELSE IF last.raw.k = "dict" THEN last.res = StoredOf(ImportJsonMixin_init(desc.cls, last.raw))
        ELSE IF IsInstance(last.raw, desc.cls) THEN last.res = Stored(last.raw)
        ELSE last.res = Raise("ValueError")

\* C13: a wrong-shaped value written to an optional attribute raised.
C13_Witness ==
    /\ WriteDone
    /\ desc.kind = "Single"
    /\ desc.optional
    /\ last.raw = PyInt(5)
    /\ last.res = Raise("ValueError")


\* What the default source of a single-nested-entity attribute yields when the
\* nested type is constructed from the empty mapping before the optional flag
\* is looked at.
SingleDefaultClaimed(d) ==
    IF callable(d.factory) THEN Ok(d.factory.ret)
    ELSE IF IsInstance(d.default, d.cls) THEN Ok(d.default)
    ELSE IF ~has_required_fields(d.cls) THEN ImportJsonMixin_init(d.cls, EmptyDict)
    ELSE IF d.optional THEN Ok(PyNone)
    ELSE Raise("ValueError")

\* What it yields when the optional flag is looked at first.
SingleDefaultOptionalFirst(d) ==
    IF callable(d.factory) THEN Ok(d.factory.ret)
    ELSE IF IsInstance(d.default, d.cls) THEN Ok(d.default)
    ELSE IF d.optional THEN Ok(PyNone)
    ELSE IF has_required_fields(d.cls) THEN Raise("ValueError")
    ELSE ImportJsonMixin_init(d.cls, EmptyDict)

\* C14, as claimed: the default of a single-nested-entity attribute is, in this
\* order, the factory's result, the literal instance, an entity constructed
\* from the empty mapping when the nested type has no required attributes,
\* None when the attribute is optional, and an error otherwise.
C14_ConstructBeforeNone ==
    (WriteDone /\ desc.kind = "Single" /\ ~Truthy(last.raw)) =>
        last.res = MarkDefault(SingleDefaultClaimed(desc))

\* C14, amended: the order is the factory's result, the literal instance, None
\* when the attribute is optional, an error when the nested type has required
\* attributes, and an entity constructed from the empty mapping otherwise.
C14_NoneBeforeConstruct ==
    (WriteDone /\ desc.kind = "Single" /\ ~Truthy(last.raw)) =>
        last.res = MarkDefault(SingleDefaultOptionalFirst(desc))

\* C14: an optional attribute whose nested type has no required attributes was
\* written None and holds None.
C14_Witness ==
    /\ WriteDone
    /\ desc.kind = "Single"
    /\ desc.optional
    /\ ~has_required_fields(desc.cls)
    /\ ~callable(desc.factory)
    /\ ~IsInstance(desc.default, desc.cls)
    /\ last.raw = PyNone
    /\ last.res = [out |-> "ok", val |-> PyNone, dflt |-> TRUE]


(***************************************************************************)
(* Further properties of import (specification Spec)                       *)
(***************************************************************************)
\* The fields of the entity type being imported, and the names of the first n.
ImpFields == fields(imp.cls)
FirstNames(n) == [j \in 1..n |-> ImpFields[j].name]

\* What the write path of the nested-entity accessor of field f is to be
\* given: the value under the field's key, or the whole input mapping.
PassedDown(f) ==
    IF HasKey(imp.kwargs, f.name) THEN DictGet(imp.kwargs, f.name) ELSE imp.kwargs

HasLiteralDefault(f) ==
    f.default # MISSING /\ f.factory = MISSING /\ ~IsObjectFieldDescriptor(f.default)

\* What field f holds after setattr was given the value v: what the __set__
\* of its accessor stores, or v itself.
HeldAfter(f, v) == IF f.default.k = "descr" THEN descriptor_set(f.default, v) ELSE Stored(v)

\* The value under the key of f, or the literal default when that value is
\* falsy or the key absent.
DefaultIfFalsy(f) ==
    IF ~Truthy(DictGet(imp.kwargs, f.name)) THEN f.default ELSE DictGet(imp.kwargs, f.name)

\* The value under the key of f, or the literal default when that value is
\* None or the key absent.
DefaultIfNone(f) ==
    IF DictGet(imp.kwargs, f.name).k = "none" THEN f.default ELSE DictGet(imp.kwargs, f.name)

\* C16, as claimed: every assigned field with a literal default holds what its
\* write path makes of the literal default when the raw value is falsy or
\* absent, and of the raw value only when it is truthy.
C16_DefaultWhenFalsy ==
    (imp.pc \in {"assign", "done"}) =>
        \A j \in 1..(imp.i - 1) :
            HasLiteralDefault(ImpFields[j]) =>
                HeldAfter(ImpFields[j], DefaultIfFalsy(ImpFields[j])).out = "ok"
                /\ HeldAfter(ImpFields[j], DefaultIfFalsy(ImpFields[j])).val
                      = DictGet(imp.dct, ImpFields[j].name)

\* C16, amended: every assigned field with a literal default holds what its
\* write path makes of the literal default when the raw value is None or
\* absent, and of the raw value otherwise, falsy or not; an import that failed
\* at such a field failed with what that write raises.
C16_DefaultWhenNone ==
    (imp.pc \in {"assign", "done"} \/ (imp.pc = "failed" /\ imp.at = "assign")) =>
        /\ \A j \in 1..(imp.i - 1) :
              HasLiteralDefault(ImpFields[j]) =>
                 HeldAfter(ImpFields[j], DefaultIfNone(ImpFields[j])).out = "ok"
                 /\ HeldAfter(ImpFields[j], DefaultIfNone(ImpFields[j])).val
                       = DictGet(imp.dct, ImpFields[j].name)
        /\ (imp.pc = "failed" /\ HasLiteralDefault(ImpFields[imp.i])) =>
              imp.err = HeldAfter(ImpFields[imp.i], DefaultIfNone(ImpFields[imp.i]))

\* C16: an import ended that was given 0 for a field whose literal default is
\* 5, and the field holds 0.
C16_Witness ==
    /\ imp.pc = "done"
    /\ imp.cls = "Doc"
    /\ DictGet(imp.kwargs, F_count) = PyInt(0)
    /\ DictGet(imp.dct, F_count) = PyInt(0)


\* C17: has_required_fields of the entity type being imported is true exactly
\* when some declared field has neither a default nor a default factory, and,
\* once the empty mapping has been validated, exactly when that validation
\* failed.
C17_RequiredIffEmptyFails ==
    /\ has_required_fields(imp.cls)
          <=> (\E j \in 1..Len(ImpFields) :
                  ImpFields[j].default = MISSING /\ ImpFields[j].factory = MISSING)
    /\ (imp.kwargs = EmptyDict /\ imp.pc # "validate") =>
          (has_required_fields(imp.cls)
              <=> (imp.pc = "failed" /\ imp.at = "validate"
                   /\ imp.err.err = "MissingRequiredFieldsError"))

\* C17: the import of the empty mapping into a type with required fields
\* failed validation.
C17_Witness ==
    /\ imp.kwargs = EmptyDict
    /\ imp.pc = "failed"
    /\ imp.at = "validate"
    /\ has_required_fields(imp.cls)


(***************************************************************************)
(* Further properties of export (specification Spec)                       *)
(***************************************************************************)
\* C18: a flat export that returned holds no value that is itself a mapping,
\* a list or an entity.
C18_SingleLevel ==
    (exp.pc = "flat" /\ exp.res.out = "ok") =>
        \A p \in 1..Len(exp.res.val.vals) : exp.res.val.vals[p].k \notin {"dict", "list", "obj"}


\* C20: a nested export that returned holds, at the path of every scalar leaf
\* of the entity, the leaf as it is, or its textual form when stringify is
\* set, at any depth.
C20_StringifyAtAnyDepth ==
    (exp.pc = "nested" /\ exp.res.out = "ok") =>
        ScalarLeaves(exp.res.val, <<>>)
            = { [path |-> l.path, val |-> IF exp.stringify THEN PyStr(py_str(l.val)) ELSE l.val] :
                   l \in ScalarLeaves(Entity, <<>>) }


(***************************************************************************)
(* Properties of the export followed call by call (specification SpecWalk) *)
(***************************************************************************)
\* The call made for a value with an export of its own inside a nested export:
\* its own to_json when its type is not the exporting entity's, and otherwise
\* the loop over its fields inside the same traversal.
DelegatesUnlessSameType ==
    (AtValue /\ Top.mode = "nested" /\ has_to_json(Top.obj)) =>
        IF Top.obj.cls # Top.self_cls
        THEN /\ walk'.how = "delegate"
             /\ Head(walk'.stack) = CallFrame(Top.obj, FALSE)
        ELSE /\ walk'.how = "fields"
             /\ \A i \in 1..Len(fields(Top.obj.cls)) : walk'.stack[i] = AttrFrame(Top, i)

\* The outcome of the export as a function of the entity.
ExportRaises ==
    IF ClassTable[imp.cls].exp = "nested" THEN ExportJsonMixin_to_json(Entity, FALSE).out = "raise"
    ELSE FlatExportJsonMixin_to_json(Entity, FALSE, walk.use_prefix).out = "raise"

\* C19: in a nested export a value with an export of its own is rendered by a
\* call of that export, except a value of the exporting entity's own type,
\* which is rendered field by field; and every export of an imported entity,
\* the self-typed chains included, comes to its end, raising exactly when the
\* export as a function of the entity raises.
C19_GuardedDelegationTerminates ==
    /\ [][DelegatesUnlessSameType]_vars
    /\ [](walk.pc = "done" => (walk.err <=> ExportRaises))
    /\ <>(walk.pc = "done")

\* C19: the nested export of a chain of three entities of one type came to its
\* end without an error.
C19_Witness ==
    /\ walk.pc = "done"
    /\ ~walk.err
    /\ imp.cls = "Node"
    /\ DictGet(imp.dct, F_next).k = "obj"
    /\ DictGet(DictGet(imp.dct, F_next).d, F_next).k = "obj"


(***************************************************************************)
(* The frame of a write (specification SpecAccessor)                       *)
(***************************************************************************)
\* The attributes of a __dict__ other than the one the accessor governs.
OtherAttrs(dct) == { e \in Entries(dct) : e.key # F_attr }

\* A step that is a write through the accessor: the accessor and its default
\* are as before and so is the other entity; when the write raised, the
\* entity written to is as before too; when it returned, the entity holds the
\* value the write made under the attribute and its other attributes are as
\* before.
WriteFrame ==
    (last'.op = "write") =>
        /\ desc' = desc
        /\ lit' = lit
        /\ \A i \in Insts \ {last'.inst} : slots'[i] = slots[i]
        /\ IF last'.res.out = "raise"
           THEN slots'[last'.inst] = slots[last'.inst]
           ELSE /\ DictGet(slots'[last'.inst].dct, F_attr) = last'.res.val
                /\ OtherAttrs(slots'[last'.inst].dct) = OtherAttrs(slots[last'.inst].dct)

\* C21: for every accessor kind, a write that raises leaves the stored value of
\* the attribute and every other attribute of the entity unchanged, and a write
\* that returns changes only the written attribute of the written entity.
C21_WriteFrame == [][WriteFrame]_vars

\* C21: a strict identifier attribute that held an identifier was written a
\* string that is none; the write raised and the entity holds what it held.
C21_Witness ==
    /\ WriteDone
    /\ last.res.out = "raise"
    /\ desc.kind = "Uuid"
    /\ desc.strict
    /\ last.raw = PyStr(S_not_a_uuid)
    /\ DictGet(slots[last.inst].dct, F_attr) = U1
    /\ DictGet(slots[last.inst].dct, F_other) = PyInt(last.inst)

====
